---- MODULE Spec2Model ----
(***************************************************************************)
(* Model of the ZeroTier node runtime (src/node/Node.cpp): the public      *)
(* entry points of Node and their C API wrappers, as called by one or by   *)
(* several host threads.                                                   *)
(*                                                                         *)
(* Every entry point is one action, or, where it takes and releases locks  *)
(* or calls out between its critical sections, a chain of actions linked   *)
(* by the calling thread's program counter.  Collaborators whose code is   *)
(* outside src/ (Switch, Topology, Network, the host callbacks) are the    *)
(* environment: what they return or throw is drawn from small sets.        *)
(*                                                                         *)
(* Time stamps are uint64_t in the code.  Here they are integers modulo    *)
(* 2^TimeBits, so that the unsigned subtractions of the code wrap as they  *)
(* do there; the periods of Constants.hpp are scaled to that range and     *)
(* keep their order.                                                       *)
(***************************************************************************)
EXTENDS Integers, Sequences, FiniteSets, TLC

----------------------------------------------------------------------------
(* Bounds of the model *)

\* the host clock values passed as "now" are 0..MaxNow
MaxNow == 3
\* width of the modelled unsigned time stamps
TimeBits == 3
\* Switch::doTimerTasks returns 0..MaxTimerDelay
MaxTimerDelay == 3
\* the upstream contact set of a tick holds at most MaxUpstreams peers
MaxUpstreams == 2
\* the controller's store is mutated at most MaxMutations times
MaxMutations == 2
\* the largest qualifier id of a buffer
MaxQualifierId == 8
\* the serialized network configuration has 0..MaxTotalSize bytes
MaxTotalSize == 7

(* Periods of Constants.hpp, scaled (the real ones are 500, 5000, 60000,   *)
(* 120000 and 500000 ms) *)
ZT_CORE_TIMER_TASK_GRANULARITY == 1
ZT_PING_CHECK_INVERVAL == 2
ZT_NETWORK_AUTOCONF_DELAY == 3
ZT_HOUSEKEEPING_PERIOD == 3
ZT_PEER_ACTIVITY_TIMEOUT == 3

\* sizeof(RuntimeEnvironment::publicIdentityStr), scaled (the real one is 384)
ZT_IDENTITY_STRING_BUFFER_LENGTH == 4
ZT_NETWORK_COM_MAX_QUALIFIERS == 8

\* the sizes of Node.cpp 592, scaled (the real ones are 1444, 28 and 256 bytes):
\* the UDP payload, the offset of the payload in a packet, the room left for what
\* follows the chunk
ZT_UDP_DEFAULT_PAYLOAD_MTU == 9
ZT_PACKET_IDX_PAYLOAD == 2
TrailerBytes == 4

\* the shifts of the xorshift generator of Node.cpp 555-556, scaled to words of
\* TimeBits bits (the real ones are 23, 17 and 26 on 64 bits)
PrngShiftX == 1
PrngShiftXBack == 1
PrngShiftYBack == 2

Modulus == 2 ^ TimeBits
Times == 0 .. MaxNow
\* the clock values of the concurrent host
MTTimes == {1, MaxNow}
\* the receive times of the peers of an upstream contact set
UpstreamSets(T) == {S \in SUBSET T : Cardinality(S) <= MaxUpstreams}

\* uint64_t subtraction and addition
U64Sub(a, b) == (a - b + Modulus) % Modulus
U64Add(a, b) == (a + b) % Modulus

Min(a, b) == IF a <= b THEN a ELSE b
Max(a, b) == IF a >= b THEN a ELSE b

\* host threads; SeqThreads is the single thread of a sequential host
Threads == {"t1", "t2"}
SeqThreads == {"t1"}
\* network ids the host uses
NwIds == {1, 2}
\* local interface addresses: "bad" is not valid for a path
Addresses == {"a", "b", "bad"}
\* what a callee can raise
Exc == {"none", "bad_alloc", "other"}
\* wire packets, by what the packet router makes of them
Packets == {"malformed", "frame"}

None == "none"
Absent == [present |-> FALSE, destroyed |-> FALSE, hasConfig |-> FALSE, lastConfigUpdate |-> 0,
           netconfFailure |-> "NONE", revoked |-> FALSE]
Unwritten == 0 - 1

VARIABLES
    now,                  \* Node::_now
    lastPingCheck,        \* Node::_lastPingCheck
    lastHousekeepingRun,  \* Node::_lastHousekeepingRun
    online,               \* Node::_online
    directPaths,          \* Node::_directPaths
    networks,             \* Node::_networks: nwid -> Network, or Absent
    backgroundTasksLock,  \* owner of Node::_backgroundTasksLock, or None
    networks_m,           \* owner of Node::_networks_m, or None
    pc,                   \* where each host thread is
    frame,                \* each thread's locals of the call it is in
    emitted,              \* the calls out (host callbacks, collaborators) of the last step
    ret,                  \* what the last step returned to the host, if it returned
    identity,             \* RuntimeEnvironment::identity of the node, 0 when the host has no node
    store,                \* the host's state store: object type -> id -> text ("" as <<>>)
    lastRun,              \* the last construction: how it got its identity
    prevRun,              \* the construction before the last
    dbMode,               \* JSONDB: "fs", "http" or "ipc", from the base path
    dbNetworks,           \* JSONDB::_networks: nwid -> _NW, or NoNW
    dbMembers,            \* JSONDB::_members: member id -> the ids of its networks
    dbNetworks_m,         \* owner of JSONDB::_networks_m, or None
    dataReady,            \* JSONDB::_dataReady
    summaryThreadRun,     \* JSONDB::_summaryThreadRun
    summaryThreadToDo,    \* JSONDB::_summaryThreadToDo
    todo,                 \* the worker's local todo (threadMain)
    rawInputBuf,          \* the message the worker has read and parsed (threadMain)
    wpc,                  \* where the worker is; "none": JSONDB::_summaryThread is not started
    dbpc,                 \* where each host thread is in its call of the store
    dbframe,              \* each host thread's locals of that call
    loaded,               \* the initial load has completed
    recomputed,           \* the networks the worker's last pass recomputed, in order
    mutations,            \* number of mutations of the store so far
    callIn,               \* the pure functions: the arguments of the last application
    callOut,              \* and what it has computed
    prngState             \* Node::_prngState, the two words that line 71 has filled

\* the node and its callers
nodeVars == <<now, lastPingCheck, lastHousekeepingRun, online, directPaths, networks,
              backgroundTasksLock, networks_m, pc, frame>>
\* the identity of the node and the host's state store
idVars == <<identity, store, lastRun, prevRun>>

\* the controller's store
dbVars == <<dbMode, dbNetworks, dbMembers, dbNetworks_m, dataReady, summaryThreadRun,
            summaryThreadToDo, todo, rawInputBuf, wpc, dbpc, dbframe, loaded, recomputed,
            mutations>>

\* the pure functions
pureVars == <<callIn, callOut, prngState>>

vars == <<nodeVars, emitted, ret, idVars, dbVars, pureVars>>

nodeFields == <<now, lastPingCheck, lastHousekeepingRun, online, directPaths, networks>>

----------------------------------------------------------------------------
(* Records *)

\* the topology as a ping check finds it.  peers: the peer records by address, with
\* the time of the last receive, isActive(now) and the families on which
\* doPingAndKeepalive reports activity; upstreamsToContact: the upstream contact
\* set, with the families of the stable endpoints of each upstream; bestPath: there
\* is a best current upstream and it has a path
PeerAddresses == 1 .. MaxUpstreams
Families == {"AF_INET", "AF_INET6"}
NoPeer == [present |-> FALSE, lastReceive |-> 0, active |-> FALSE, alive |-> {}]
NoUpstream == [present |-> FALSE, endpoints |-> {}]
NoTopology == [peers |-> [a \in PeerAddresses |-> NoPeer],
               upstreamsToContact |-> [a \in PeerAddresses |-> NoUpstream],
               bestPath |-> FALSE]

NoFrame == [now |-> 0, nwid |-> 0, nUserPtr |-> "null", needConfig |-> {},
            timeUntilNextPingCheck |-> 0, dangling |-> FALSE,
            topology |-> NoTopology, amRoot |-> FALSE]
NoRet == [op |-> "none", t |-> None, nwid |-> 0, now |-> 0, code |-> "none",
          exc |-> "none", deadline |-> Unwritten]

Call(c, n, a) == [call |-> c, nwid |-> n, arg |-> a]
\* a return to the host: the entry point, its thread, its nwid and now arguments (0
\* when it has none), the result code, what the Node method raised, and the value
\* written to *nextBackgroundTaskDeadline
Returned(op, t, n, nowArg, code, exc, dl) ==
    [op |-> op, t |-> t, nwid |-> n, now |-> nowArg, code |-> code, exc |-> exc,
     deadline |-> dl]

\* a return of a call on the direct paths, with its address argument
ReturnedAddr(op, t, a, code) ==
    [op |-> op, t |-> t, nwid |-> 0, now |-> 0, code |-> code, exc |-> "none",
     deadline |-> Unwritten, addr |-> a]

\* ascending sequence of a set of network ids (the iteration order of the map)
RECURSIVE SeqOf(_)
SeqOf(S) == IF S = {} THEN <<>>
            ELSE LET m == CHOOSE x \in S : \A y \in S : x <= y
                 IN <<m>> \o SeqOf(S \ {m})

Joined == {n \in NwIds : networks[n].present}

----------------------------------------------------------------------------
(* Identities, their text forms and the host's state store *)

\* the identities Identity::generate can produce; 0 is no identity
Identities == {1, 2}

\* Identity::address(): the address of an identity
address(id) == id

IdChar(id) == IF id = 1 THEN "1" ELSE "2"
\* Identity::toString(false, ...) and Identity::toString(true, ...): the public text
\* and the full text, which is the public text followed by the secret key
PublicText(id) == <<IdChar(id), "p">>
SecretText(id) == <<IdChar(id), "p", "s">>

\* Identity::fromString: the identity a text holds, 0 when it does not parse
fromString(text) ==
    IF \E id \in Identities : text \in {PublicText(id), SecretText(id)}
    THEN CHOOSE id \in Identities : text \in {PublicText(id), SecretText(id)}
    ELSE 0

\* texts a store can hold under IDENTITY_SECRET when the host starts: none, a full
\* identity, something that does not parse
InitialSecrets == {<<>>, SecretText(1), SecretText(2), <<"x">>}
\* and under IDENTITY_PUBLIC: none, a public text, a cut text, an overlong text
InitialPublics == {<<>>, PublicText(1), PublicText(2), <<"1">>, <<"1", "p", "x", "x">>}

ObjectTypes == {"IDENTITY_SECRET", "IDENTITY_PUBLIC"}
\* first word of a state object id: 0, or an address
ObjectIds == {0} \cup {address(id) : id \in Identities}

EmptyStore == [ty \in ObjectTypes |-> [id \in ObjectIds |-> <<>>]]

\* what the constructor leaves in an empty store when it generates identity id
StoreAfterGenerate(id) ==
    [EmptyStore EXCEPT !["IDENTITY_SECRET"][address(id)] = SecretText(id),
                       !["IDENTITY_PUBLIC"][address(id)] = PublicText(id)]

NoRun == [ok |-> FALSE, address |-> 0, generated |-> FALSE, emptyStore |-> FALSE,
          secret |-> <<>>, public |-> <<>>]

----------------------------------------------------------------------------
(* The controller's store (src/controller/JSONDB.cpp): its records *)

\* network ids and member ids of the controller
DbNwIds == {1, 2}
DbMembers == {1, 2}
\* network configs and member configs, by what the summary reads of them
Configs == {"c1", "c2"}
MemberConfigs == {"auth", "deauth"}
DbModes == {"fs", "http", "ipc"}

\* nlohmann::json::to_msgpack and from_msgpack: the shadow holds the encoded
\* payload; the empty vector of a default constructed _NW decodes to null
to_msgpack(j) == <<"msgpack", j>>
from_msgpack(v) == IF v = <<>> THEN "null" ELSE v[2]

\* NetworkSummaryInfo(): the summary of a default constructed _NW
NoSummary == [totalMemberCount |-> 0, authorizedMemberCount |-> 0]
\* no entry in _networks
NoNW == [present |-> FALSE, config |-> <<>>, members |-> [m \in DbMembers |-> <<>>],
         summaryInfo |-> NoSummary]
\* _NW(): what _networks[nwid] creates
NewNW == [NoNW EXCEPT !.present = TRUE]

\* the members of an entry
MembersOf(nw) == {m \in DbMembers : nw.members[m] # <<>>}

_EMPTY_JSON == "{}"

NoDbFrame == [op |-> "none", nwid |-> 0, mid |-> 0, payload |-> "null", memberIds |-> <<>>,
              wrote |-> FALSE]

\* the output arguments of a call that did not assign them
NoOutput == <<>>

\* a return of a call of the store: its return value and what it wrote to its
\* output arguments
DbReturned(op, t, n, m, code, out) ==
    [op |-> op, t |-> t, nwid |-> n, mid |-> m, code |-> code, out |-> out,
     exc |-> "none", now |-> 0, deadline |-> Unwritten]

\* the entities of the input stream: a network object, a member object
IpcNetworks == [objtype : {"network"}, nwid : DbNwIds, mid : {0}, payload : {"c1"}]
IpcMembers == [objtype : {"member"}, nwid : DbNwIds, mid : {1}, payload : {"auth"}]
\* what a select() of the worker finds when it finds input: a line that does not
\* parse, json that is no entity, an entity
IpcOther == [objtype : {"malformed", "scalar"}, nwid : {0}, mid : {0},
             payload : {"null"}]
IpcInput == IpcOther \cup IpcNetworks \cup IpcMembers
NoInput == [objtype |-> "none", nwid |-> 0, mid |-> 0, payload |-> "null"]

\* the sequences that list each element of a set once
Orders(S) == {q \in UNION {[1 .. k -> S] : k \in {Cardinality(S)}} :
                 \A i, j \in 1 .. Len(q) : q[i] = q[j] => i = j}

\* the store of a host that has no controller
DbIdle ==
    /\ dbMode = "fs"
    /\ dbNetworks = [n \in DbNwIds |-> NoNW]
    /\ dbMembers = [m \in DbMembers |-> {}]
    /\ dbNetworks_m = None
    /\ dataReady = FALSE
    /\ summaryThreadRun = TRUE
    /\ summaryThreadToDo = <<>>
    /\ todo = <<>>
    /\ rawInputBuf = NoInput
    /\ wpc = "none"
    /\ dbpc = [t \in Threads |-> "new"]
    /\ dbframe = [t \in Threads |-> NoDbFrame]
    /\ loaded = FALSE
    /\ recomputed = <<>>
    /\ mutations = 0

\* no pure function has been applied
NoCall == [fn |-> "none"]
PureIdle ==
    /\ callIn = NoCall
    /\ callOut = NoCall

----------------------------------------------------------------------------
(* C API wrappers: what each ZT_Node_* entry point returns for what the    *)
(* Node method returned (r) or raised (exc) *)

\* faulty variant: processWirePacket reports a dropped packet as an internal error, as the
\* other entry points do
ZT_Node_processWirePacketInternal(r, exc) ==
    IF exc = "none" THEN r
    ELSE IF exc = "bad_alloc" THEN "FATAL_ERROR_OUT_OF_MEMORY"
    ELSE "FATAL_ERROR_INTERNAL"

\* 720-726
ZT_Node_processWirePacket(r, exc) ==
    IF exc = "none" THEN r
    ELSE IF exc = "bad_alloc" THEN "FATAL_ERROR_OUT_OF_MEMORY"
    ELSE "OK"

\* 691-700: ZT_Node_new
ZT_Node_new(r, exc) ==
    IF exc = "none" THEN r
    ELSE IF exc = "bad_alloc" THEN "FATAL_ERROR_OUT_OF_MEMORY"
    ELSE IF exc = "runtime_error" THEN "FATAL_ERROR_DATA_STORE_FAILED"
    ELSE "FATAL_ERROR_INTERNAL"

\* processVirtualNetworkFrame, processBackgroundTasks, join, leave,
\* multicastSubscribe, multicastUnsubscribe share one shape
ZT_Node_call(r, exc) ==
    IF exc = "none" THEN r
    ELSE IF exc = "bad_alloc" THEN "FATAL_ERROR_OUT_OF_MEMORY"
    ELSE "FATAL_ERROR_INTERNAL"

\* 806-822: ZT_Node_orbit and ZT_Node_deorbit have one catch clause
ZT_Node_orbit(r, exc) ==
    IF exc = "none" THEN r ELSE "FATAL_ERROR_INTERNAL"

\* faulty variant: a query lets the exception through to the host
ZT_Node_queryNoCatch(r, exc) ==
    IF exc = "none" THEN r ELSE "escaped"

\* 836-861: ZT_Node_peers, ZT_Node_networkConfig, ZT_Node_networks return a null
\* pointer
ZT_Node_query(r, exc) ==
    IF exc = "none" THEN r ELSE "null"

\* 870-893: ZT_Node_addLocalInterfaceAddress, ZT_Node_sendUserMessage return 0
ZT_Node_int(r, exc) ==
    IF exc = "none" THEN r ELSE "0"

\* 829-834, 863-868, 879-884, 895-907: the entry points that return nothing
ZT_Node_void(exc) == "void"

\* 824-827: ZT_Node_address has no try block
ZT_Node_address(r, exc) ==
    IF exc = "none" THEN r ELSE "escaped"

----------------------------------------------------------------------------
\* a node constructed on an empty store
NodeConstructed ==
    /\ now \in Times
    /\ lastPingCheck = 0
    /\ lastHousekeepingRun = 0
    /\ online = FALSE
    /\ directPaths = <<>>
    /\ networks = [n \in NwIds |-> Absent]
    /\ backgroundTasksLock = None
    /\ networks_m = None
    /\ pc = [t \in Threads |-> "idle"]
    /\ frame = [t \in Threads |-> NoFrame]
    /\ emitted = <<>>
    /\ ret = NoRet
    \* the node was constructed on an empty store and generated identity 1
    /\ identity = 1
    /\ store = StoreAfterGenerate(1)
    /\ lastRun = [NoRun EXCEPT !.ok = TRUE, !.address = address(1), !.generated = TRUE,
                              !.emptyStore = TRUE, !.secret = SecretText(1),
                              !.public = PublicText(1)]
    /\ prevRun = NoRun
    /\ DbIdle
    /\ PureIdle

\* the words of the generator of a host that draws no random number: the
\* constructor may be given any bytes, all zero among them
Init == NodeConstructed /\ prngState = <<0, 0>>

\* the constructor has filled the words of the generator with random bytes
InitSeeded ==
    /\ NodeConstructed
    /\ now = 0
    /\ prngState \in (0 .. Modulus - 1) \X (0 .. Modulus - 1)

\* the host has a node
NodeExists == identity # 0

----------------------------------------------------------------------------
(* Collaborators outside src/, modelled from the specification *)

\* Node::network(nwid): the lookup of the networks map, under its lock
network(nwid) == networks[nwid]

\* Network::userPtr(): the address of the network's user pointer slot
userPtr(nw) == IF nw.present THEN "slot" ELSE "null"

\* Network::destroy(): marks the network destroyed
destroy(nw) == [nw EXCEPT !.destroyed = TRUE]

\* Network::Network(RR,tptr,nwid,uptr,0): a network without configuration
NewNetwork == [present |-> TRUE, destroyed |-> FALSE, hasConfig |-> FALSE,
               lastConfigUpdate |-> 0, netconfFailure |-> "NONE", revoked |-> FALSE]

\* Network::setConfiguration: installs a configuration, stamped with Node::now()
setConfiguration(nw) == [nw EXCEPT !.hasConfig = TRUE, !.lastConfigUpdate = now,
                                   !.netconfFailure = "NONE"]

\* Network::setNotFound, Network::setAccessDenied: the failure the network reports
setNotFound(nw) == [nw EXCEPT !.netconfFailure = "NOT_FOUND"]
setAccessDenied(nw) == [nw EXCEPT !.netconfFailure = "ACCESS_DENIED"]

\* Network::addCredential with a revocation: the network has taken it
addCredential(nw) == [nw EXCEPT !.revoked = TRUE]

\* Node::configureVirtualNetworkPort: the host's virtualNetworkConfig callback
configureVirtualNetworkPort(nwid, op) == Call("virtualNetworkConfig", nwid, op)

\* Node::postEvent: the host's event callback
postEvent(ev) == Call("event", 0, ev)

\* Switch::onRemotePacket: a malformed packet is dropped; a frame for a joined
\* network is handed to the host
onRemotePacket(pkt) ==
    IF pkt = "frame" /\ Joined # {}
    THEN <<Call("virtualNetworkFrame", CHOOSE n \in Joined : TRUE, "in")>>
    ELSE <<>>

\* Network::sendUpdatesToMembers: in memory, it reaches no host callback
sendUpdatesToMembers(nwid) == Call("sendUpdatesToMembers", nwid, "members")

\* Path::isAddressValidForPath
isAddressValidForPath(a) == a # "bad"

----------------------------------------------------------------------------
(* Node::Node, Node.cpp 57-125, under ZT_Node_new, 688-701; Node::~Node, 127-138 *)

\* Node::stateObjectGet: the host returns what the store holds under (type, id)
stateObjectGet(ty, id) == store[ty][id]

\* Node::stateObjectPut: the host stores the text under (type, id)
stateObjectPut(st, ty, id, text) == [st EXCEPT ![ty][id] = text]

\* memcmp(tmp, str, n) = 0, str being a NUL terminated text in a zeroed buffer
MemEqual(tmp, str, n) ==
    \A k \in 1 .. n : tmp[k] = (IF k <= Len(str) THEN str[k] ELSE "NUL")

\* 82-91: the identity loaded from the text under IDENTITY_SECRET, id {0,0}; 0 when
\* there is no text or it does not parse
LoadedIdentity ==
    LET tmp == stateObjectGet("IDENTITY_SECRET", 0)
    IN IF Len(tmp) > 0 THEN fromString(tmp) ELSE 0

\* 102-104: a public text is stored under the node's address, fits the buffer and
\* differs from the node's public text in its first n bytes
StoredPublicDiffers(id) ==
    LET tmp == stateObjectGet("IDENTITY_PUBLIC", address(id))
        n == Len(tmp)
    IN /\ n > 0
       /\ n < ZT_IDENTITY_STRING_BUFFER_LENGTH
       /\ ~MemEqual(tmp, PublicText(id), n)

\* 97-98: the id a generated secret is stored under
GeneratedSecretId(id) == address(id)

\* 93-107: the store after the constructor got its identity
ConstructStore(gen) ==
    LET id == LoadedIdentity
    IN IF id = 0
       THEN stateObjectPut(
                stateObjectPut(store, "IDENTITY_SECRET", GeneratedSecretId(gen), SecretText(gen)),
                "IDENTITY_PUBLIC", address(gen), PublicText(gen))
       ELSE IF StoredPublicDiffers(id)
            THEN stateObjectPut(store, "IDENTITY_PUBLIC", address(id), PublicText(id))
            ELSE store

ConstructCalls(gen) ==
    LET id == LoadedIdentity
    IN IF id = 0
       THEN <<Call("stateObjectPut", GeneratedSecretId(gen), "IDENTITY_SECRET"),
              Call("stateObjectPut", address(gen), "IDENTITY_PUBLIC")>>
       ELSE IF StoredPublicDiffers(id)
            THEN <<Call("stateObjectPut", address(id), "IDENTITY_PUBLIC")>>
            ELSE <<>>

\* the host constructs a node at time n.  version: the version of the callbacks
\* (66-67); gen: the identity generate() would make; exc: what the construction of
\* the subcomponents raises (109-122)
Construct(t, n, version, gen, exc) ==
    /\ \A u \in Threads : pc[u] = "idle"
    /\ ~NodeExists
    /\ UNCHANGED <<dbVars, pureVars>>
    /\ IF version # 0
       THEN /\ ret' = Returned("new", t, 0, n, ZT_Node_new("OK", "invalid_argument"),
                               "invalid_argument", Unwritten)
            /\ emitted' = <<>>
            /\ UNCHANGED <<nodeVars, idVars, pureVars>>
       ELSE LET id == IF LoadedIdentity = 0 THEN gen ELSE LoadedIdentity
                run == [ok |-> exc = "none", address |-> address(id),
                        generated |-> LoadedIdentity = 0, emptyStore |-> store = EmptyStore,
                        secret |-> SecretText(id), public |-> PublicText(id)]
            IN /\ store' = ConstructStore(gen)
               /\ lastRun' = run
               /\ prevRun' = lastRun
               /\ ret' = Returned("new", t, 0, n, ZT_Node_new("OK", exc), exc, Unwritten)
               /\ IF exc = "none"
                  THEN /\ identity' = id
                       /\ emitted' = ConstructCalls(gen) \o <<postEvent("UP")>>
                       /\ now' = n
                       /\ lastPingCheck' = 0
                       /\ lastHousekeepingRun' = 0
                       /\ online' = FALSE
                       /\ directPaths' = <<>>
                       /\ networks' = [k \in NwIds |-> Absent]
                       /\ UNCHANGED <<backgroundTasksLock, networks_m, pc, frame>>
                  ELSE /\ identity' = 0
                       /\ emitted' = ConstructCalls(gen)
                       /\ UNCHANGED nodeVars

\* ZT_Node_delete, 703-708: the node and its networks are destroyed; its fields are
\* gone with it
Delete(t) ==
    /\ \A u \in Threads : pc[u] = "idle"
    /\ NodeExists
    /\ UNCHANGED <<dbVars, pureVars>>
    /\ identity' = 0
    /\ networks' = [k \in NwIds |-> Absent]
    /\ now' = 0
    /\ lastPingCheck' = 0
    /\ lastHousekeepingRun' = 0
    /\ online' = FALSE
    /\ directPaths' = <<>>
    /\ emitted' = <<>>
    /\ ret' = Returned("delete", t, 0, 0, "void", "none", Unwritten)
    /\ UNCHANGED <<backgroundTasksLock, networks_m, pc, frame, store, lastRun, prevRun>>

\* ZT_Node_address, 824-827, over Node::address, 383-386, which raises nothing
Address(t) ==
    /\ pc[t] = "idle"
    /\ NodeExists
    /\ emitted' = <<>>
    /\ ret' = Returned("address", t, address(identity), 0,
                       ZT_Node_address("address", "none"), "none", Unwritten)
    /\ UNCHANGED <<nodeVars, idVars, dbVars, pureVars>>

----------------------------------------------------------------------------
(* Node::join, Node.cpp 313-320: one critical section of the networks lock *)

\* faulty variant: join constructs a Network whether or not the id is joined
JoinCreatesAlways(nwid) == TRUE

\* 317: a Network is constructed only when the map has none for the id
JoinCreates(nwid) == ~networks[nwid].present

JoinNetworks(nwid) ==
    IF JoinCreates(nwid) THEN [networks EXCEPT ![nwid] = NewNetwork] ELSE networks

JoinCalls(nwid) ==
    IF JoinCreates(nwid) THEN <<Call("Network::Network", nwid, "new")>> ELSE <<>>

Join(t, nwid) ==
    /\ pc[t] = "idle"
    /\ NodeExists
    /\ UNCHANGED <<idVars, dbVars, pureVars>>
    /\ networks_m = None
    /\ networks' = JoinNetworks(nwid)
    /\ emitted' = JoinCalls(nwid)
    /\ ret' = Returned("join", t, nwid, 0, ZT_Node_call("OK", "none"), "none", Unwritten)
    /\ UNCHANGED <<now, lastPingCheck, lastHousekeepingRun, online, directPaths,
                   backgroundTasksLock, networks_m, pc, frame>>

----------------------------------------------------------------------------
(* Node::leave, Node.cpp 322-351 *)

\* 326-336: look the network up under the lock; absent: return OK; else destroy it
\* and keep the address of its user pointer
\* faulty variant: leave of a network that is not joined reports it as not found
LeaveAbsentResultNotFound == "ERROR_NETWORK_NOT_FOUND"

\* 330
LeaveAbsentResult == "OK"

LeaveLookup(t, nwid) ==
    /\ pc[t] = "idle"
    /\ NodeExists
    /\ UNCHANGED <<idVars, dbVars, pureVars>>
    /\ networks_m = None
    /\ IF ~networks[nwid].present
       THEN /\ ret' = Returned("leave", t, nwid, 0, ZT_Node_call(LeaveAbsentResult, "none"),
                               "none", Unwritten)
            /\ UNCHANGED <<networks, pc, frame>>
       ELSE /\ networks' = [networks EXCEPT ![nwid] = destroy(@)]
            /\ pc' = [pc EXCEPT ![t] = "leave_callback"]
            /\ frame' = [frame EXCEPT ![t] = [NoFrame EXCEPT !.nwid = nwid,
                                                   !.nUserPtr = userPtr(networks[nwid])]]
            /\ ret' = NoRet
    /\ emitted' = <<>>
    /\ UNCHANGED <<now, lastPingCheck, lastHousekeepingRun, online, directPaths,
                   backgroundTasksLock, networks_m>>

\* 338-339: outside the lock, tell the host that the port is destroyed
LeaveCallbackCalls(t) ==
    IF frame[t].nUserPtr # "null"
    THEN <<configureVirtualNetworkPort(frame[t].nwid, "DESTROY")>>
    ELSE <<>>

LeaveCallback(t) ==
    /\ pc[t] = "leave_callback"
    /\ NodeExists
    /\ UNCHANGED <<idVars, dbVars, pureVars>>
    /\ emitted' = LeaveCallbackCalls(t)
    /\ pc' = [pc EXCEPT ![t] = "leave_erase"]
    /\ ret' = NoRet
    /\ UNCHANGED <<now, lastPingCheck, lastHousekeepingRun, online, directPaths, networks,
                   backgroundTasksLock, networks_m, frame>>

\* 341-350: erase the entry under the lock, delete the stored config, return OK
\* faulty variant: leave forgets to erase the entry
LeaveEraseNetworksSkipped(t) == networks

LeaveEraseNetworks(t) == [networks EXCEPT ![frame[t].nwid] = Absent]

LeaveErase(t) ==
    /\ pc[t] = "leave_erase"
    /\ NodeExists
    /\ UNCHANGED <<idVars, dbVars, pureVars>>
    /\ networks_m = None
    /\ networks' = LeaveEraseNetworks(t)
    /\ emitted' = <<Call("stateObjectDelete", frame[t].nwid, "NETWORK_CONFIG")>>
    /\ ret' = Returned("leave", t, frame[t].nwid, 0, ZT_Node_call("OK", "none"), "none", Unwritten)
    /\ pc' = [pc EXCEPT ![t] = "idle"]
    \* the network object is freed: a leave of another thread that still holds the
    \* address of its user pointer holds a dangling pointer
    /\ frame' = [u \in Threads |->
                   IF u = t THEN NoFrame
                   ELSE IF pc[u] \in {"leave_callback"} /\ frame[u].nwid = frame[t].nwid
                        THEN [frame[u] EXCEPT !.dangling = TRUE]
                        ELSE frame[u]]
    /\ UNCHANGED <<now, lastPingCheck, lastHousekeepingRun, online, directPaths,
                   backgroundTasksLock, networks_m>>

----------------------------------------------------------------------------
(* Node::networkConfig, Node::networks, Node.cpp 441-471: queries *)

\* networkConfig(nwid): "config" for a malloc'ed descriptor, "null" when absent
networkConfig(nwid) == IF networks[nwid].present THEN "config" ELSE "null"

\* networks(): the listed network ids
networksList == Joined

----------------------------------------------------------------------------
(* Node::processVirtualNetworkFrame, Node.cpp 154-172 *)

\* 168-171
ProcessVirtualNetworkFrameResult(nw) ==
    IF nw.present THEN "OK" ELSE "ERROR_NETWORK_NOT_FOUND"

ProcessVirtualNetworkFrame(t, n, nwid, exc) ==
    /\ pc[t] = "idle"
    /\ NodeExists
    /\ UNCHANGED <<idVars, dbVars, pureVars>>
    /\ networks_m = None
    /\ now' = n
    /\ IF network(nwid).present
       THEN /\ emitted' = <<Call("onLocalEthernet", nwid, "frame")>>
            /\ ret' = Returned("processVirtualNetworkFrame", t, nwid, n,
                               ZT_Node_call(ProcessVirtualNetworkFrameResult(network(nwid)), exc),
                               exc, Unwritten)
       ELSE /\ emitted' = <<>>
            /\ ret' = Returned("processVirtualNetworkFrame", t, nwid, n,
                               ZT_Node_call(ProcessVirtualNetworkFrameResult(network(nwid)), "none"),
                               "none", Unwritten)
    /\ UNCHANGED <<lastPingCheck, lastHousekeepingRun, online, directPaths, networks,
                   backgroundTasksLock, networks_m, pc, frame>>

(* Node::multicastSubscribe, Node::multicastUnsubscribe, Node.cpp 353-369 *)

\* 356-359
MulticastSubscribeResult(nw) ==
    IF nw.present THEN "OK" ELSE "ERROR_NETWORK_NOT_FOUND"

MulticastSubscribe(t, nwid, exc) ==
    /\ pc[t] = "idle"
    /\ NodeExists
    /\ UNCHANGED <<idVars, dbVars, pureVars>>
    /\ networks_m = None
    /\ IF network(nwid).present
       THEN /\ emitted' = <<Call("Network::multicastSubscribe", nwid, "group")>>
            /\ ret' = Returned("multicastSubscribe", t, nwid, 0,
                               ZT_Node_call(MulticastSubscribeResult(network(nwid)), exc),
                               exc, Unwritten)
       ELSE /\ emitted' = <<>>
            /\ ret' = Returned("multicastSubscribe", t, nwid, 0,
                               ZT_Node_call(MulticastSubscribeResult(network(nwid)), "none"),
                               "none", Unwritten)
    /\ UNCHANGED <<now, lastPingCheck, lastHousekeepingRun, online, directPaths, networks,
                   backgroundTasksLock, networks_m, pc, frame>>

\* faulty variant: unsubscribe reports OK for a network that is not joined
MulticastUnsubscribeResultAlwaysOK(nw) == "OK"

\* 365-368
MulticastUnsubscribeResult(nw) ==
    IF nw.present THEN "OK" ELSE "ERROR_NETWORK_NOT_FOUND"

MulticastUnsubscribe(t, nwid, exc) ==
    /\ pc[t] = "idle"
    /\ NodeExists
    /\ UNCHANGED <<idVars, dbVars, pureVars>>
    /\ networks_m = None
    /\ IF network(nwid).present
       THEN /\ emitted' = <<Call("Network::multicastUnsubscribe", nwid, "group")>>
            /\ ret' = Returned("multicastUnsubscribe", t, nwid, 0,
                               ZT_Node_call(MulticastUnsubscribeResult(network(nwid)), exc),
                               exc, Unwritten)
       ELSE /\ emitted' = <<>>
            /\ ret' = Returned("multicastUnsubscribe", t, nwid, 0,
                               ZT_Node_call(MulticastUnsubscribeResult(network(nwid)), "none"),
                               "none", Unwritten)
    /\ UNCHANGED <<now, lastPingCheck, lastHousekeepingRun, online, directPaths, networks,
                   backgroundTasksLock, networks_m, pc, frame>>

----------------------------------------------------------------------------
(* Node::processWirePacket, Node.cpp 140-152, under ZT_Node_processWirePacket, 710-727 *)

\* faulty variant: processWirePacket forgets to update _now
ProcessWirePacketNowStale(n) == now

\* 149: _now takes the now argument
ProcessWirePacketNow(n) == n

ProcessWirePacket(t, n, pkt, exc) ==
    /\ pc[t] = "idle"
    /\ NodeExists
    /\ UNCHANGED <<idVars, dbVars, pureVars>>
    /\ now' = ProcessWirePacketNow(n)
    /\ emitted' = <<Call("onRemotePacket", 0, pkt)>> \o (IF exc = "none" THEN onRemotePacket(pkt) ELSE <<>>)
    /\ ret' = Returned("processWirePacket", t, 0, n, ZT_Node_processWirePacket("OK", exc), exc, Unwritten)
    /\ UNCHANGED <<lastPingCheck, lastHousekeepingRun, online, directPaths, networks,
                   backgroundTasksLock, networks_m, pc, frame>>

----------------------------------------------------------------------------
(* Node::addLocalInterfaceAddress, Node::clearLocalInterfaceAddresses, 479-495 *)

\* 483: std::find over the list
InPaths(a) == \E i \in 1 .. Len(directPaths) : directPaths[i] = a

\* faulty variant: every valid address is appended, listed or not
AddLocalInterfaceAddressAddsAnyValid(a) == isAddressValidForPath(a)

\* 481-483: an address is appended when it is valid for a path and not in the list
AddLocalInterfaceAddressAdds(a) == isAddressValidForPath(a) /\ ~InPaths(a)

\* the validity test is outside the lock but reads only the argument; the search
\* and the append are one critical section of _directPaths_m
AddLocalInterfaceAddress(t, a) ==
    /\ pc[t] = "idle"
    /\ NodeExists
    /\ UNCHANGED <<idVars, dbVars, pureVars>>
    /\ IF AddLocalInterfaceAddressAdds(a)
       THEN /\ directPaths' = Append(directPaths, a)
            /\ ret' = ReturnedAddr("addLocalInterfaceAddress", t, a, "1")
       ELSE /\ directPaths' = directPaths
            /\ ret' = ReturnedAddr("addLocalInterfaceAddress", t, a, "0")
    /\ emitted' = <<>>
    /\ UNCHANGED <<now, lastPingCheck, lastHousekeepingRun, online, networks,
                   backgroundTasksLock, networks_m, pc, frame>>

ClearLocalInterfaceAddresses(t) ==
    /\ pc[t] = "idle"
    /\ NodeExists
    /\ UNCHANGED <<idVars, dbVars, pureVars>>
    /\ directPaths' = <<>>
    /\ emitted' = <<>>
    /\ ret' = Returned("clearLocalInterfaceAddresses", t, 0, 0, "void", "none", Unwritten)
    /\ UNCHANGED <<now, lastPingCheck, lastHousekeepingRun, online, networks,
                   backgroundTasksLock, networks_m, pc, frame>>

----------------------------------------------------------------------------
(* Node::ncSendConfig to the node's own address, Node.cpp 578-581: the       *)
(* embedded controller installs a configuration in the joined network        *)

NcSendConfigLocal(t, nwid) ==
    /\ pc[t] = "idle"
    /\ NodeExists
    /\ UNCHANGED <<idVars, dbVars, pureVars>>
    /\ networks_m = None
    /\ networks' = IF network(nwid).present
                   THEN [networks EXCEPT ![nwid] = setConfiguration(@)]
                   ELSE networks
    /\ emitted' = <<>>
    /\ ret' = Returned("ncSendConfig", t, nwid, 0, "void", "none", Unwritten)
    /\ UNCHANGED <<now, lastPingCheck, lastHousekeepingRun, online, directPaths,
                   backgroundTasksLock, networks_m, pc, frame>>

----------------------------------------------------------------------------
(* Node::ncSendConfig to another node, Node.cpp 582-617: the configuration is *)
(* sent in chunks                                                             *)

\* faulty variant: the chunk is all that is left of the configuration
ChunkLenAllLeft(totalSize, chunkIndex) == totalSize - chunkIndex

\* 592: the length of the chunk that starts at chunkIndex
ChunkLen(totalSize, chunkIndex) ==
    Min(totalSize - chunkIndex,
        ZT_UDP_DEFAULT_PAYLOAD_MTU - (ZT_PACKET_IDX_PAYLOAD + TrailerBytes))

\* uint64_t ^, << and >> on the scaled words
RECURSIVE Xor(_, _)
Xor(a, b) == IF a = 0 THEN b
             ELSE IF b = 0 THEN a
             ELSE ((a + b) % 2) + 2 * Xor(a \div 2, b \div 2)
ShiftLeft(x, k) == (x * 2 ^ k) % Modulus
ShiftRight(x, k) == x \div 2 ^ k

\* 549-559, Node::prng: the words after the call and the number returned
prng(state) ==
    LET y == state[2]
        x == Xor(state[1], ShiftLeft(state[1], PrngShiftX))
        z == Xor(Xor(x, y), Xor(ShiftRight(x, PrngShiftXBack), ShiftRight(y, PrngShiftYBack)))
    IN [state |-> <<y, z>>, value |-> U64Add(z, y)]

\* faulty variant: the random number is the update id as it is
ConfigUpdateIdAsDrawn(random) == random

\* 586-587: the update id is a random number that is not zero
ConfigUpdateId(random) == IF random = 0 THEN random + 1 ELSE random

\* no call is in progress
NcSendConfigIdle == PureIdle \/ (callOut.fn = "ncSendConfig" /\ callOut.returned)

\* 582-590: the configuration is serialized; serialized: what toDictionary
\* returns; totalSize: the size of the dictionary
NcSendConfigRemote(nwid, requestPacketId, serialized, totalSize) ==
    /\ NcSendConfigIdle
    /\ NodeExists
    /\ callIn' = [fn |-> "ncSendConfig", nwid |-> nwid, requestPacketId |-> requestPacketId,
                  serialized |-> serialized, totalSize |-> totalSize,
                  prngState |-> prngState,
                  configUpdateId |-> IF serialized
                                     THEN ConfigUpdateId(prng(prngState).value) ELSE 0]
    /\ prngState' = IF serialized THEN prng(prngState).state ELSE prngState
    /\ callOut' = [fn |-> "ncSendConfig", chunkIndex |-> 0, sent |-> <<>>,
                   returned |-> FALSE]
    /\ UNCHANGED <<nodeVars, emitted, ret, idVars, dbVars>>

\* 591-612: one round of the loop sends the packet of a chunk
NcSendConfigChunk ==
    /\ callOut.fn = "ncSendConfig"
    /\ ~callOut.returned
    /\ callIn.serialized
    /\ callOut.chunkIndex < callIn.totalSize
    /\ LET chunkLen == ChunkLen(callIn.totalSize, callOut.chunkIndex)
           outp == [verb |-> IF callIn.requestPacketId # 0 THEN "VERB_OK"
                             ELSE "VERB_NETWORK_CONFIG",
                    nwid |-> callIn.nwid, chunkLen |-> chunkLen, flags |-> 0,
                    configUpdateId |-> callIn.configUpdateId,
                    totalSize |-> callIn.totalSize, chunkIndex |-> callOut.chunkIndex]
       IN callOut' = [callOut EXCEPT !.sent = Append(@, outp),
                                     !.chunkIndex = @ + chunkLen]
    /\ UNCHANGED <<callIn, prngState>>
    /\ UNCHANGED <<nodeVars, emitted, ret, idVars, dbVars>>

\* 585, 591, 614: nothing was serialized or nothing is left to send
NcSendConfigReturn ==
    /\ callOut.fn = "ncSendConfig"
    /\ ~callOut.returned
    /\ ~callIn.serialized \/ callOut.chunkIndex >= callIn.totalSize
    /\ callOut' = [callOut EXCEPT !.returned = TRUE]
    /\ UNCHANGED <<callIn, prngState>>
    /\ UNCHANGED <<nodeVars, emitted, ret, idVars, dbVars>>

NextChunks ==
    \/ \E nwid \in {1}, requestPacketId \in {0, 1}, serialized \in BOOLEAN,
           totalSize \in 0 .. MaxTotalSize :
          NcSendConfigRemote(nwid, requestPacketId, serialized, totalSize)
    \/ NcSendConfigChunk
    \/ NcSendConfigReturn
    \/ \E t \in SeqThreads, nwid \in {1} : pc[t] = "idle" /\ NcSendConfigLocal(t, nwid)

\* the controller's thread goes on with a call it has begun
SpecChunks ==
    /\ InitSeeded
    /\ [][NextChunks]_vars
    /\ WF_vars(NcSendConfigChunk)
    /\ WF_vars(NcSendConfigReturn)

----------------------------------------------------------------------------
(* Node::ncSendRevocation, Node.cpp 627-643, and Node::ncSendError, 645-678  *)

Destinations == {"self", "other"}
ErrorCodes == {"NC_ERROR_NONE", "NC_ERROR_OBJECT_NOT_FOUND", "NC_ERROR_ACCESS_DENIED",
               "NC_ERROR_INTERNAL_SERVER_ERROR"}

\* faulty variant: the revocation is also sent when it is for the node itself
NcSendRevocationSent(t, destination, nwid) ==
    /\ pc[t] = "idle"
    /\ NodeExists
    /\ UNCHANGED <<idVars, dbVars, pureVars>>
    /\ networks_m = None
    /\ networks' = IF destination = "self" /\ network(nwid).present
                   THEN [networks EXCEPT ![nwid] = addCredential(@)]
                   ELSE networks
    /\ emitted' = <<Call("send", nwid, "VERB_NETWORK_CREDENTIALS")>>
    /\ ret' = Returned("ncSendRevocation", t, nwid, 0, "void", "none", Unwritten)
    /\ UNCHANGED <<now, lastPingCheck, lastHousekeepingRun, online, directPaths,
                   backgroundTasksLock, networks_m, pc, frame>>

\* 629-633, 634-642: the revocation goes to the joined network of the node itself,
\* or in one NETWORK_CREDENTIALS packet to the other node
NcSendRevocation(t, destination, nwid) ==
    /\ pc[t] = "idle"
    /\ NodeExists
    /\ UNCHANGED <<idVars, dbVars, pureVars>>
    /\ networks_m = None
    /\ IF destination = "self"
       THEN /\ networks' = IF network(nwid).present
                           THEN [networks EXCEPT ![nwid] = addCredential(@)]
                           ELSE networks
            /\ emitted' = <<>>
       ELSE /\ networks' = networks
            /\ emitted' = <<Call("send", nwid, "VERB_NETWORK_CREDENTIALS")>>
    /\ ret' = Returned("ncSendRevocation", t, nwid, 0, "void", "none", Unwritten)
    /\ UNCHANGED <<now, lastPingCheck, lastHousekeepingRun, online, directPaths,
                   backgroundTasksLock, networks_m, pc, frame>>

\* faulty variant: every error reads as not found on the wire
ErrorOnWireNotFound(errorCode) == "ERROR_OBJ_NOT_FOUND"

\* 667-675: the error code of the ERROR packet
ErrorOnWire(errorCode) ==
    IF errorCode = "NC_ERROR_ACCESS_DENIED" THEN "ERROR_NETWORK_ACCESS_DENIED_"
    ELSE "ERROR_OBJ_NOT_FOUND"

\* 650-660: what the error makes of the network of the node itself
ErrorOnNetwork(nw, errorCode) ==
    CASE errorCode \in {"NC_ERROR_OBJECT_NOT_FOUND", "NC_ERROR_INTERNAL_SERVER_ERROR"} ->
            setNotFound(nw)
      [] errorCode = "NC_ERROR_ACCESS_DENIED" -> setAccessDenied(nw)
      [] OTHER -> nw

\* 645-678: the error marks the joined network of the node itself, or goes in one
\* ERROR packet to the other node if it answers a request
NcSendError(t, nwid, requestPacketId, destination, errorCode) ==
    /\ pc[t] = "idle"
    /\ NodeExists
    /\ UNCHANGED <<idVars, dbVars, pureVars>>
    /\ networks_m = None
    /\ IF destination = "self"
       THEN /\ networks' = IF network(nwid).present
                           THEN [networks EXCEPT ![nwid] = ErrorOnNetwork(@, errorCode)]
                           ELSE networks
            /\ emitted' = <<>>
       ELSE /\ networks' = networks
            /\ emitted' = IF requestPacketId # 0
                          THEN <<Call("send", nwid, ErrorOnWire(errorCode))>>
                          ELSE <<>>
    /\ ret' = Returned("ncSendError", t, nwid, 0, "void", "none", Unwritten)
    /\ UNCHANGED <<now, lastPingCheck, lastHousekeepingRun, online, directPaths,
                   backgroundTasksLock, networks_m, pc, frame>>

\* a node whose embedded controller answers the node itself and other nodes
NextHooks ==
    \E t \in SeqThreads, nwid \in NwIds :
        \/ Join(t, nwid)
        \/ NcSendConfigLocal(t, nwid)
        \/ \E destination \in Destinations : NcSendRevocation(t, destination, nwid)
        \/ \E requestPacketId \in {0, 1}, destination \in Destinations,
               errorCode \in ErrorCodes :
              NcSendError(t, nwid, requestPacketId, destination, errorCode)

SpecHooks == Init /\ [][NextHooks]_vars

----------------------------------------------------------------------------
(* Calls whose callee raises, and the entry points that touch no field of the *)
(* node: what the C API wrapper makes of them, Node.cpp 686-907               *)

\* 316-318: the construction of the Network raises; no Network enters the map
JoinRaises(t, nwid, exc) ==
    /\ pc[t] = "idle"
    /\ NodeExists
    /\ UNCHANGED <<idVars, dbVars, pureVars>>
    /\ networks_m = None
    /\ JoinCreates(nwid)
    /\ emitted' = <<Call("Network::Network", nwid, "new")>>
    /\ ret' = Returned("join", t, nwid, 0, ZT_Node_call("OK", exc), exc, Unwritten)
    /\ UNCHANGED nodeVars

\* 327-333: externalConfig raises under the lock, before the network is destroyed
LeaveRaises(t, nwid, exc) ==
    /\ pc[t] = "idle"
    /\ NodeExists
    /\ UNCHANGED <<idVars, dbVars, pureVars>>
    /\ networks_m = None
    /\ networks[nwid].present
    /\ emitted' = <<Call("externalConfig", nwid, "ctmp")>>
    /\ ret' = Returned("leave", t, nwid, 0, ZT_Node_call("OK", exc), exc, Unwritten)
    /\ UNCHANGED nodeVars

\* Node::orbit, 371-375, and Node::deorbit, 377-381, under their wrappers, 806-822
Orbit(t, exc) ==
    /\ pc[t] = "idle"
    /\ NodeExists
    /\ UNCHANGED <<idVars, dbVars, pureVars>>
    /\ emitted' = <<Call("addMoon", 0, "topology")>>
    /\ ret' = Returned("orbit", t, 0, 0, ZT_Node_orbit("OK", exc), exc, Unwritten)
    /\ UNCHANGED nodeVars

Deorbit(t, exc) ==
    /\ pc[t] = "idle"
    /\ NodeExists
    /\ UNCHANGED <<idVars, dbVars, pureVars>>
    /\ emitted' = <<Call("removeMoon", 0, "topology")>>
    /\ ret' = Returned("deorbit", t, 0, 0, ZT_Node_orbit("OK", exc), exc, Unwritten)
    /\ UNCHANGED nodeVars

\* Node::peers, 396-439, Node::networkConfig, 441-451, Node::networks, 453-471,
\* under their wrappers, 836-861
Query(t, op, nwid, exc) ==
    /\ pc[t] = "idle"
    /\ NodeExists
    /\ UNCHANGED <<idVars, dbVars, pureVars>>
    /\ networks_m = None
    /\ emitted' = <<>>
    /\ LET r == IF op = "networkConfig" THEN networkConfig(nwid)
                ELSE IF op = "networks" THEN "list"
                ELSE "peers"
       IN ret' = Returned(op, t, IF op = "networkConfig" THEN nwid ELSE 0, 0,
                          ZT_Node_query(r, exc), exc, Unwritten)
    /\ UNCHANGED nodeVars

\* 484: push_back raises; the list is as it was
AddLocalInterfaceAddressRaises(t, a, exc) ==
    /\ pc[t] = "idle"
    /\ NodeExists
    /\ UNCHANGED <<idVars, dbVars, pureVars>>
    /\ AddLocalInterfaceAddressAdds(a)
    /\ emitted' = <<>>
    /\ ret' = [ReturnedAddr("addLocalInterfaceAddress", t, a, ZT_Node_int("1", exc))
                  EXCEPT !.exc = exc]
    /\ UNCHANGED nodeVars

\* Node::sendUserMessage, 497-510: 1 when the message went to another node, 0
\* when it is for this node or anything was raised
SendUserMessage(t, dest, exc) ==
    /\ pc[t] = "idle"
    /\ NodeExists
    /\ UNCHANGED <<idVars, dbVars, pureVars>>
    /\ emitted' = IF address(identity) # dest THEN <<Call("send", 0, "USER_MESSAGE")>> ELSE <<>>
    /\ ret' = Returned("sendUserMessage", t, 0, 0,
                       ZT_Node_int(IF address(identity) # dest /\ exc = "none" THEN "1" ELSE "0",
                                   "none"),
                       IF address(identity) # dest THEN exc ELSE "none", Unwritten)
    /\ UNCHANGED nodeVars

\* Node::status, 388-394, Node::freeQueryResult, 473-477, Node::setNetconfMaster,
\* 512-517, Node::setTrustedPaths, 561-564, under their wrappers
VoidOps == {"status", "freeQueryResult", "setNetconfMaster", "setTrustedPaths"}

VoidCall(t, op, exc) ==
    /\ pc[t] = "idle"
    /\ NodeExists
    /\ UNCHANGED <<idVars, dbVars, pureVars>>
    /\ emitted' = <<>>
    /\ ret' = Returned(op, t, 0, 0, ZT_Node_void(exc), exc, Unwritten)
    /\ UNCHANGED nodeVars

----------------------------------------------------------------------------
(* Node::processBackgroundTasks, Node.cpp 241-311 *)

\* 243: _now is written before the background tasks lock is taken
BackgroundEnter(t, n) ==
    /\ pc[t] = "idle"
    /\ NodeExists
    /\ UNCHANGED <<idVars, dbVars, pureVars>>
    /\ now' = n
    /\ pc' = [pc EXCEPT ![t] = "bg_lock"]
    /\ frame' = [frame EXCEPT ![t] = [NoFrame EXCEPT !.now = n]]
    /\ emitted' = <<>>
    /\ ret' = NoRet
    /\ UNCHANGED <<lastPingCheck, lastHousekeepingRun, online, directPaths, networks,
                   backgroundTasksLock, networks_m>>

\* faulty variant: the ping check waits for more than the interval
PingCheckDueLater(n) == U64Sub(n, lastPingCheck) > ZT_PING_CHECK_INVERVAL

\* 246-248: is a ping check due
PingCheckDue(n) == U64Sub(n, lastPingCheck) >= ZT_PING_CHECK_INVERVAL

\* 244-250, 289-291: take the lock; a due ping check stamps _lastPingCheck, else
\* the time to the next one is what is left of the interval
BackgroundLock(t) ==
    /\ pc[t] = "bg_lock"
    /\ NodeExists
    /\ UNCHANGED <<idVars, dbVars, pureVars>>
    /\ backgroundTasksLock = None
    /\ backgroundTasksLock' = t
    /\ IF PingCheckDue(frame[t].now)
       THEN /\ lastPingCheck' = frame[t].now
            /\ frame' = [frame EXCEPT ![t].timeUntilNextPingCheck = ZT_PING_CHECK_INVERVAL]
            /\ pc' = [pc EXCEPT ![t] = "bg_collect"]
       ELSE /\ lastPingCheck' = lastPingCheck
            /\ frame' = [frame EXCEPT ![t].timeUntilNextPingCheck =
                            ZT_PING_CHECK_INVERVAL - U64Sub(frame[t].now, lastPingCheck)]
            /\ pc' = [pc EXCEPT ![t] = "bg_finish"]
    /\ emitted' = <<>>
    /\ ret' = NoRet
    /\ UNCHANGED <<now, lastHousekeepingRun, online, directPaths, networks, networks_m>>

\* what a tick returns when a callee raised inside one of its try blocks (286-288,
\* 299-301, 306-308): the locks are released by their guards
BackgroundFail(t, exc) ==
    /\ ret' = Returned("processBackgroundTasks", t, 0, frame[t].now,
                       ZT_Node_call("FATAL_ERROR_INTERNAL", "none"), exc, Unwritten)
    /\ backgroundTasksLock' = None
    /\ pc' = [pc EXCEPT ![t] = "idle"]
    /\ frame' = [frame EXCEPT ![t] = NoFrame]

\* faulty variant: only a network without a configuration needs one
NeedsConfigIfNone(n, nw) == ~nw.hasConfig

\* 260: the networks that need a configuration
NeedsConfig(n, nw) ==
    \/ U64Sub(n, nw.lastConfigUpdate) >= ZT_NETWORK_AUTOCONF_DELAY
    \/ ~nw.hasConfig

NeedConfig(n) == {k \in Joined : NeedsConfig(n, networks[k])}

\* 262: every network of the map sends its updates
SendUpdatesCalls == [i \in 1 .. Cardinality(Joined) |-> sendUpdatesToMembers(SeqOf(Joined)[i])]

\* 253-263: under the networks lock, collect the networks that need a configuration
\* and send the membership updates
BackgroundCollect(t, exc) ==
    /\ pc[t] = "bg_collect"
    /\ NodeExists
    /\ UNCHANGED <<idVars, dbVars, pureVars>>
    /\ networks_m = None
    /\ emitted' = SendUpdatesCalls
    /\ IF exc = "none" \/ Joined = {}
       THEN /\ networks_m' = t
            /\ frame' = [frame EXCEPT ![t].needConfig = NeedConfig(frame[t].now)]
            /\ pc' = [pc EXCEPT ![t] = "bg_unlock"]
            /\ ret' = NoRet
            /\ UNCHANGED backgroundTasksLock
       ELSE /\ BackgroundFail(t, exc)
            /\ UNCHANGED networks_m
    /\ UNCHANGED <<now, lastPingCheck, lastHousekeepingRun, online, directPaths, networks>>

\* faulty variant: the networks lock is kept across the calls out
BackgroundUnlockKeepsLock(t) ==
    /\ pc[t] = "bg_unlock"
    /\ NodeExists
    /\ UNCHANGED <<idVars, dbVars, pureVars>>
    /\ networks_m = t
    /\ pc' = [pc EXCEPT ![t] = "bg_callout"]
    /\ emitted' = <<>>
    /\ ret' = NoRet
    /\ UNCHANGED <<now, lastPingCheck, lastHousekeepingRun, online, directPaths, networks,
                   backgroundTasksLock, networks_m, frame>>

\* 264: the networks lock is released at the end of its block
BackgroundUnlock(t) ==
    /\ pc[t] = "bg_unlock"
    /\ NodeExists
    /\ UNCHANGED <<idVars, dbVars, pureVars>>
    /\ networks_m = t
    /\ networks_m' = None
    /\ pc' = [pc EXCEPT ![t] = "bg_callout"]
    /\ emitted' = <<>>
    /\ ret' = NoRet
    /\ UNCHANGED <<now, lastPingCheck, lastHousekeepingRun, online, directPaths, networks,
                   backgroundTasksLock, frame>>

\* 265-266: a configuration request for each collected network
RequestConfigurationCalls(t) ==
    [i \in 1 .. Cardinality(frame[t].needConfig) |->
        Call("requestConfiguration", SeqOf(frame[t].needConfig)[i], "request")]

\* 226: the latest receive time over the contacted upstream peers, 0 without any
RECURSIVE SetMax(_)
SetMax(S) == IF S = {} THEN 0
             ELSE LET x == CHOOSE y \in S : TRUE IN Max(x, SetMax(S \ {x}))

\* the peers that have a record, the upstreams to contact
Peers(topology) == {a \in PeerAddresses : topology.peers[a].present}
Upstreams(topology) == {a \in PeerAddresses : topology.upstreamsToContact[a].present}

\* faulty variant: a HELLO is sent only when the peer was active on the family
HelloIfAlive(topology, a, family) ==
    IF family \in topology.peers[a].alive
       /\ family \in topology.upstreamsToContact[a].endpoints
    THEN <<Call("sendHELLO", a, family)>>
    ELSE <<>>

\* 198-207, 208-217: without activity on the family, a HELLO to the first stable
\* endpoint of the family that the round from a random index finds, if there is one
Hello(topology, a, family) ==
    IF family \notin topology.peers[a].alive
       /\ family \in topology.upstreamsToContact[a].endpoints
    THEN <<Call("sendHELLO", a, family)>>
    ELSE <<>>

\* 194-217: contacted is set by activity on a family or by a HELLO sent
Contacted(topology, a) ==
    \E family \in Families :
        \/ family \in topology.peers[a].alive
        \/ family \in topology.upstreamsToContact[a].endpoints

\* 190-231: _PingPeersThatNeedPing::operator() on the peer with address a
PingPeer(topology, a) ==
    IF topology.upstreamsToContact[a].present
    THEN <<Call("doPingAndKeepalive", a, "AF_INET")>> \o Hello(topology, a, "AF_INET")
         \o <<Call("doPingAndKeepalive", a, "AF_INET6")>> \o Hello(topology, a, "AF_INET6")
         \o (IF ~Contacted(topology, a) /\ topology.bestPath
             THEN <<Call("sendHELLO", a, "bestPath")>> ELSE <<>>)
    ELSE IF topology.peers[a].active
         THEN <<Call("doPingAndKeepalive", a, "any")>>
         ELSE <<>>

RECURSIVE EachPeer(_, _)
EachPeer(topology, S) ==
    IF S = {} THEN <<>>
    ELSE LET a == CHOOSE x \in S : \A y \in S : x <= y
         IN PingPeer(topology, a) \o EachPeer(topology, S \ {a})

\* 200, 210: the round over the stable endpoints of a family starts at a random
\* index, drawn whenever the peer showed no activity on the family
PrngDraws(topology) ==
    Cardinality({af \in (Peers(topology) \cap Upstreams(topology)) \X Families :
                    af[2] \notin topology.peers[af[1]].alive})

\* the words of the generator after k numbers were drawn
RECURSIVE Drawn(_, _)
Drawn(state, k) == IF k = 0 THEN state ELSE Drawn(prng(state).state, k - 1)

\* 268-272: the functor is applied to each peer of the topology
PingCalls(topology) == EachPeer(topology, Peers(topology))

\* 226: lastReceiveFromUpstream after the pass
LastReceiveFromUpstream(topology) ==
    SetMax({topology.peers[a].lastReceive : a \in Peers(topology) \cap Upstreams(topology)})

\* faulty variant: every upstream of the contact set is looked up
WhoisCallsAll(topology) ==
    LET left == Upstreams(topology)
    IN [i \in 1 .. Cardinality(left) |-> Call("requestWhois", SeqOf(left)[i], "upstream")]

\* 227, 274-279: the upstreams that the pass did not erase are looked up
WhoisCalls(topology) ==
    LET left == Upstreams(topology) \ Peers(topology)
    IN [i \in 1 .. Cardinality(left) |-> Call("requestWhois", SeqOf(left)[i], "upstream")]

\* faulty variant: the difference is taken as a signed number
OnlineStatusSigned(n, lastReceiveFromUpstream, amRoot) ==
    \/ n - lastReceiveFromUpstream < ZT_PEER_ACTIVITY_TIMEOUT
    \/ amRoot

\* 283: the new online status
OnlineStatus(n, lastReceiveFromUpstream, amRoot) ==
    \/ U64Sub(n, lastReceiveFromUpstream) < ZT_PEER_ACTIVITY_TIMEOUT
    \/ amRoot

\* faulty variant: the status is posted on every ping check, changed or not
OnlineEventsAlways(old, new) == <<postEvent(IF new THEN "ONLINE" ELSE "OFFLINE")>>

\* 284-285: the event a change of the status posts
OnlineEvents(old, new) ==
    IF old # new THEN <<postEvent(IF new THEN "ONLINE" ELSE "OFFLINE")>> ELSE <<>>

\* 265-285: outside the networks lock, request the configurations, ping the peers,
\* look up the upstreams without a peer record, update the online status
BackgroundCallOut(t, topology, amRoot, exc) ==
    /\ pc[t] = "bg_callout"
    /\ NodeExists
    /\ UNCHANGED <<idVars, dbVars, callIn, callOut>>
    /\ LET calls == RequestConfigurationCalls(t) \o PingCalls(topology)
                       \o WhoisCalls(topology)
           new == OnlineStatus(frame[t].now, LastReceiveFromUpstream(topology), amRoot)
       IN IF exc = "none" \/ calls = <<>>
          THEN /\ online' = new
               /\ emitted' = calls \o OnlineEvents(online, new)
               /\ prngState' = Drawn(prngState, PrngDraws(topology))
               /\ pc' = [pc EXCEPT ![t] = "bg_finish"]
               /\ ret' = NoRet
               /\ frame' = [frame EXCEPT ![t].topology = topology, ![t].amRoot = amRoot]
               /\ UNCHANGED backgroundTasksLock
          ELSE /\ \E k \in 1 .. Len(calls) : emitted' = SubSeq(calls, 1, k)
               /\ \E k \in 0 .. PrngDraws(topology) : prngState' = Drawn(prngState, k)
               /\ BackgroundFail(t, exc)
               /\ UNCHANGED online
    /\ UNCHANGED <<now, lastPingCheck, lastHousekeepingRun, directPaths, networks, networks_m>>

\* 293: is the housekeeping due
HousekeepingDue(n) == U64Sub(n, lastHousekeepingRun) >= ZT_HOUSEKEEPING_PERIOD

HousekeepingCalls == <<Call("doPeriodicTasks", 0, "topology"), Call("clean", 0, "sa"),
                       Call("clean", 0, "mc")>>

\* faulty variant: the deadline is not floored at the timer granularity
NextDeadlineNoFloor(n, timeUntilNextPingCheck, timerTasks) ==
    U64Add(n, Min(timeUntilNextPingCheck, timerTasks))

\* 305: the next deadline
NextDeadline(n, timeUntilNextPingCheck, timerTasks) ==
    U64Add(n, Max(Min(timeUntilNextPingCheck, timerTasks), ZT_CORE_TIMER_TASK_GRANULARITY))

\* 293-310: the housekeeping when it is due, then the deadline and OK
BackgroundFinish(t, excHouse, timerTasks, excTimer) ==
    /\ pc[t] = "bg_finish"
    /\ NodeExists
    /\ UNCHANGED <<idVars, dbVars, pureVars>>
    /\ backgroundTasksLock = t
    /\ LET due == HousekeepingDue(frame[t].now)
           house == IF due THEN HousekeepingCalls ELSE <<>>
       IN /\ lastHousekeepingRun' = IF due THEN frame[t].now ELSE lastHousekeepingRun
          /\ IF due /\ excHouse # "none"
             THEN /\ emitted' = house
                  /\ BackgroundFail(t, excHouse)
             ELSE /\ emitted' = house \o <<Call("doTimerTasks", 0, "switch")>>
                  /\ IF excTimer # "none"
                     THEN BackgroundFail(t, excTimer)
                     ELSE /\ ret' = Returned("processBackgroundTasks", t, 0, frame[t].now,
                                        ZT_Node_call("OK", "none"), "none",
                                        NextDeadline(frame[t].now,
                                                     frame[t].timeUntilNextPingCheck, timerTasks))
                          /\ backgroundTasksLock' = None
                          /\ pc' = [pc EXCEPT ![t] = "idle"]
                          /\ frame' = [frame EXCEPT ![t] = NoFrame]
    /\ UNCHANGED <<now, lastPingCheck, online, directPaths, networks, networks_m>>

----------------------------------------------------------------------------
(* JSONDB::JSONDB, JSONDB.cpp 40-103 *)

\* what the base path holds when the store starts
Db1 == [n \in DbNwIds |-> IF n = 1 THEN [NewNW EXCEPT !.config = to_msgpack("c1")] ELSE NoNW]
Db2 == [Db1 EXCEPT ![1].members[1] = to_msgpack("auth"), ![1].members[2] = to_msgpack("deauth")]
Db3 == [Db2 EXCEPT ![2] = [NewNW EXCEPT !.config = to_msgpack("c2"),
                                        !.members[1] = to_msgpack("auth")]]
Datasets == {[n \in DbNwIds |-> NoNW], Db2, Db3}

StoredNetworks(db) == {n \in DbNwIds : db[n].present}

\* Mutex::lock by the thread that holds the mutex: the thread waits for itself, or,
\* where the mutex is recursive, goes on
Relock == {"deadlock", "recursive"}

\* 40-79, 98-102: the mode is taken from the base path, the store lock is taken;
\* in IPC mode the worker is started and the constructor returns with the lock held
DbConstruct(t) ==
    /\ \A u \in Threads : dbpc[u] = "new"
    /\ dbNetworks_m' = t
    /\ IF dbMode = "ipc"
       THEN /\ wpc' = "loop"
            /\ dbpc' = [u \in Threads |-> "idle"]
            /\ ret' = DbReturned("JSONDB", t, 0, 0, "constructed", NoOutput)
       ELSE /\ wpc' = wpc
            /\ dbpc' = [dbpc EXCEPT ![t] = "ctor_load"]
            /\ ret' = NoRet
    /\ emitted' = <<>>
    /\ UNCHANGED <<dbMode, dbNetworks, dbMembers, dataReady, summaryThreadRun,
                   summaryThreadToDo, todo, rawInputBuf, dbframe, loaded, recomputed, mutations>>
    /\ UNCHANGED <<nodeVars, idVars, pureVars>>

\* 83-87, 487-508: in HTTP mode _load fails while the GET does not return the
\* data set; the constructor sleeps and tries again
DbLoadFails(t) ==
    /\ dbpc[t] = "ctor_load"
    /\ dbMode = "http"
    /\ emitted' = <<Call("Http::GET", 0, "failed")>>
    /\ ret' = NoRet
    /\ UNCHANGED <<nodeVars, idVars, dbVars, pureVars>>

\* 498, 463, 471: _load in HTTP mode, and _add for every object it finds, lock the
\* store lock, which the constructor holds
LoadRelocks(ds) == dbMode = "http" \/ StoredNetworks(ds) # {}

\* 92-97: the constructor opens the gate itself when there is nothing to summarize
DbLoadOpensGate(q) == q = <<>>

\* 83-97: _load reads the data set ds; every network is queued for its summary (in
\* the order of the map, q); with a queue the worker is started and the lock stays
\* held, without one the data are ready and the lock is released
DbLoad(t, ds, q, relock) ==
    /\ dbpc[t] = "ctor_load"
    /\ dbNetworks_m = t
    /\ q \in Orders(StoredNetworks(ds))
    /\ emitted' = <<Call("_load", 0, dbMode)>>
    /\ IF LoadRelocks(ds) /\ relock = "deadlock"
       THEN /\ dbpc' = [dbpc EXCEPT ![t] = "deadlocked"]
            /\ ret' = NoRet
            /\ UNCHANGED <<dbNetworks, dbMembers, dbNetworks_m, dataReady, summaryThreadToDo,
                           wpc, loaded>>
       ELSE /\ dbNetworks' = ds
            /\ dbMembers' = [m \in DbMembers |-> {n \in DbNwIds : m \in MembersOf(ds[n])}]
            /\ loaded' = TRUE
            /\ summaryThreadToDo' = q
            /\ wpc' = IF q # <<>> THEN "loop" ELSE wpc
            /\ dataReady' = DbLoadOpensGate(q)
            /\ dbNetworks_m' = IF DbLoadOpensGate(q) THEN None ELSE t
            /\ dbpc' = [u \in Threads |-> "idle"]
            /\ ret' = DbReturned("JSONDB", t, 0, 0, "constructed", NoOutput)
    /\ UNCHANGED <<dbMode, summaryThreadRun, todo, rawInputBuf, dbframe, recomputed, mutations>>
    /\ UNCHANGED <<nodeVars, idVars, pureVars>>

----------------------------------------------------------------------------
(* The readers, JSONDB.cpp 149-201: each is one critical section of the store lock *)

\* what a reader leaves unchanged
DbReads ==
    /\ emitted' = <<>>
    /\ UNCHANGED <<nodeVars, idVars, dbVars, pureVars>>

HasNetwork(t, n) ==
    /\ dbpc[t] = "idle"
    /\ dbNetworks_m = None
    /\ ret' = DbReturned("hasNetwork", t, n, 0, dbNetworks[n].present, NoOutput)
    /\ DbReads

GetNetwork(t, n) ==
    /\ dbpc[t] = "idle"
    /\ dbNetworks_m = None
    /\ ret' = IF dbNetworks[n].present
              THEN DbReturned("getNetwork", t, n, 0, TRUE, <<from_msgpack(dbNetworks[n].config)>>)
              ELSE DbReturned("getNetwork", t, n, 0, FALSE, NoOutput)
    /\ DbReads

GetNetworkSummaryInfo(t, n) ==
    /\ dbpc[t] = "idle"
    /\ dbNetworks_m = None
    /\ ret' = IF dbNetworks[n].present
              THEN DbReturned("getNetworkSummaryInfo", t, n, 0, TRUE, <<dbNetworks[n].summaryInfo>>)
              ELSE DbReturned("getNetworkSummaryInfo", t, n, 0, FALSE, NoOutput)
    /\ DbReads

\* faulty variant: a network without the member is reported as no network
GetNetworkAndMemberResultNoMemberZero(n, m) ==
    IF ~dbNetworks[n].present THEN 0
    ELSE IF dbNetworks[n].members[m] = <<>> THEN 0
    ELSE 3

\* 178-187: 0 without the network, 1 without the member, 3 with both
GetNetworkAndMemberResult(n, m) ==
    IF ~dbNetworks[n].present THEN 0
    ELSE IF dbNetworks[n].members[m] = <<>> THEN 1
    ELSE 3

\* 184-186: the outputs are assigned only on the way to return 3
GetNetworkAndMember(t, n, m) ==
    /\ dbpc[t] = "idle"
    /\ dbNetworks_m = None
    /\ ret' = DbReturned("getNetworkAndMember", t, n, m, GetNetworkAndMemberResult(n, m),
                         IF GetNetworkAndMemberResult(n, m) = 3
                         THEN <<from_msgpack(dbNetworks[n].config),
                                from_msgpack(dbNetworks[n].members[m]),
                                dbNetworks[n].summaryInfo>>
                         ELSE NoOutput)
    /\ DbReads

GetNetworkMember(t, n, m) ==
    /\ dbpc[t] = "idle"
    /\ dbNetworks_m = None
    /\ ret' = IF dbNetworks[n].present /\ dbNetworks[n].members[m] # <<>>
              THEN DbReturned("getNetworkMember", t, n, m, TRUE,
                              <<from_msgpack(dbNetworks[n].members[m])>>)
              ELSE DbReturned("getNetworkMember", t, n, m, FALSE, NoOutput)
    /\ DbReads

----------------------------------------------------------------------------
(* JSONDB::saveNetwork, JSONDB::saveNetworkMember, JSONDB.cpp 203-226 *)

\* what the steps of the host's calls leave unchanged
DbHostShared ==
    UNCHANGED <<nodeVars, idVars, pureVars, dbMode, dataReady, summaryThreadRun, todo, rawInputBuf,
                loaded, recomputed>>
\* and the steps that do not touch the index of the members
DbHostStep == DbHostShared /\ UNCHANGED dbMembers

\* 205-207: the payload is written out; ok: what writeRaw returns
SaveNetwork(t, n, cfg, ok) ==
    /\ dbpc[t] = "idle"
    /\ mutations < MaxMutations
    /\ mutations' = mutations + 1
    /\ emitted' = <<Call("writeRaw", n, "network")>>
    /\ dbframe' = [dbframe EXCEPT ![t] = [NoDbFrame EXCEPT !.op = "saveNetwork", !.nwid = n,
                                                          !.payload = cfg, !.wrote = ok]]
    /\ dbpc' = [dbpc EXCEPT ![t] = "save_shadow"]
    /\ ret' = NoRet
    /\ UNCHANGED <<dbNetworks, dbNetworks_m, summaryThreadToDo, wpc>>
    /\ DbHostStep

\* 217-219
SaveNetworkMember(t, n, m, mcfg, ok) ==
    /\ dbpc[t] = "idle"
    /\ mutations < MaxMutations
    /\ mutations' = mutations + 1
    /\ emitted' = <<Call("writeRaw", n, "member")>>
    /\ dbframe' = [dbframe EXCEPT ![t] = [NoDbFrame EXCEPT !.op = "saveNetworkMember",
                                                          !.nwid = n, !.mid = m,
                                                          !.payload = mcfg, !.wrote = ok]]
    /\ dbpc' = [dbpc EXCEPT ![t] = "save_shadow"]
    /\ ret' = NoRet
    /\ UNCHANGED <<dbNetworks, dbNetworks_m, summaryThreadToDo, wpc>>
    /\ DbHostStep

\* 223, 473: _members[nodeId].insert(networkId)
IndexInsert(index, m, n) == [index EXCEPT ![m] = @ \cup {n}]

\* 291: _members[nodeId].erase(networkId)
IndexErase(index, m, n) == [index EXCEPT ![m] = @ \ {n}]

\* _networks[nwid]: the entry, created when there is none
Entry(db, n) == IF db[n].present THEN db[n] ELSE NewNW

\* 210, 464: the config of the entry is replaced
PutNetwork(db, n, cfg) == [db EXCEPT ![n] = [Entry(db, n) EXCEPT !.config = to_msgpack(cfg)]]

\* 222, 472: the member of the entry is replaced
PutMember(db, n, m, mcfg) ==
    [db EXCEPT ![n] = [Entry(db, n) EXCEPT !.members[m] = to_msgpack(mcfg)]]

\* faulty variant: a save whose payload could not be written out ends there
SaveProceedsIfWritten(ok) == ok

\* 207, 219: what writeRaw returns is not looked at
SaveProceeds(ok) == TRUE

\* 208-211, 220-224: the shadow is updated under the store lock
SaveShadow(t) ==
    /\ dbpc[t] = "save_shadow"
    /\ IF SaveProceeds(dbframe[t].wrote)
       THEN /\ dbNetworks_m = None
            /\ dbNetworks' = IF dbframe[t].op = "saveNetwork"
                             THEN PutNetwork(dbNetworks, dbframe[t].nwid, dbframe[t].payload)
                             ELSE PutMember(dbNetworks, dbframe[t].nwid, dbframe[t].mid,
                                            dbframe[t].payload)
            /\ dbMembers' = IF dbframe[t].op = "saveNetwork" THEN dbMembers
                            ELSE IndexInsert(dbMembers, dbframe[t].mid, dbframe[t].nwid)
            /\ dbpc' = [dbpc EXCEPT ![t] = "save_recompute"]
            /\ ret' = NoRet
            /\ dbframe' = dbframe
       ELSE /\ dbNetworks' = dbNetworks
            /\ dbMembers' = dbMembers
            /\ dbpc' = [dbpc EXCEPT ![t] = "idle"]
            /\ ret' = DbReturned(dbframe[t].op, t, dbframe[t].nwid, dbframe[t].mid, "void",
                                 NoOutput)
            /\ dbframe' = [dbframe EXCEPT ![t] = NoDbFrame]
    /\ emitted' = <<>>
    /\ UNCHANGED <<dbNetworks_m, summaryThreadToDo, wpc, mutations>>
    /\ DbHostShared

\* 534: std::find(_summaryThreadToDo.begin(), _summaryThreadToDo.end(), networkId)
Queued(q, n) == \E i \in 1 .. Len(q) : q[i] = n

\* faulty variant: the network is queued whether or not it is queued already
_recomputeSummaryInfoAlways(q, n) == Append(q, n)

\* 533-535: the network is queued unless it is queued already
_recomputeSummaryInfo(q, n) == IF Queued(q, n) THEN q ELSE Append(q, n)

\* 536-537: the worker is started when there is none
StartedWorker == IF wpc = "none" THEN "loop" ELSE wpc

\* 212, 225: the summary of the network is scheduled, under the queue's lock
SaveRecompute(t) ==
    /\ dbpc[t] = "save_recompute"
    /\ summaryThreadToDo' = _recomputeSummaryInfo(summaryThreadToDo, dbframe[t].nwid)
    /\ wpc' = StartedWorker
    /\ dbpc' = [dbpc EXCEPT ![t] = "idle"]
    /\ dbframe' = [dbframe EXCEPT ![t] = NoDbFrame]
    /\ emitted' = <<Call("std::find", dbframe[t].nwid,
                         IF Queued(summaryThreadToDo, dbframe[t].nwid) THEN "found"
                         ELSE "end")>>
    /\ ret' = DbReturned(dbframe[t].op, t, dbframe[t].nwid, dbframe[t].mid, "void", NoOutput)
    /\ UNCHANGED <<dbNetworks, dbNetworks_m, mutations>>
    /\ DbHostStep

----------------------------------------------------------------------------
(* JSONDB::eraseNetworkMember, JSONDB.cpp 271-304, JSONDB::eraseNetwork, 228-269 *)

\* 276-287, 247-258: what is deleted outside the store: a file, an object of the
\* HTTP harness, nothing in IPC mode
PersistentDelete(n, what) ==
    IF dbMode = "ipc" THEN <<>>
    ELSE IF dbMode = "http" THEN <<Call("Http::DEL", n, what)>>
    ELSE <<Call("OSUtils::rm", n, what)>>

\* 298: the json made of the member's bytes (they are not decoded)
BytesAsJson(v) == <<"array", v>>

\* 295-299: the entry without the member
WithoutMember(db, n, m) == [db EXCEPT ![n].members[m] = <<>>]

\* 273-287: eraseNetworkMember(n, m, true) as the host calls it
EraseNetworkMember(t, n, m) ==
    /\ dbpc[t] = "idle"
    /\ mutations < MaxMutations
    /\ mutations' = mutations + 1
    /\ emitted' = PersistentDelete(n, "member")
    /\ dbframe' = [dbframe EXCEPT ![t] = [NoDbFrame EXCEPT !.op = "eraseNetworkMember",
                                                          !.nwid = n, !.mid = m]]
    /\ dbpc' = [dbpc EXCEPT ![t] = "erasem_shadow"]
    /\ ret' = NoRet
    /\ UNCHANGED <<dbNetworks, dbNetworks_m, summaryThreadToDo, wpc>>
    /\ DbHostStep

\* 289-303: under the store lock the network leaves the index of the member, the
\* member leaves the entry and the summary is scheduled
EraseMemberShadow(t) ==
    /\ dbpc[t] = "erasem_shadow"
    /\ dbNetworks_m = None
    /\ LET n == dbframe[t].nwid
           m == dbframe[t].mid
       IN IF dbNetworks[n].present /\ dbNetworks[n].members[m] # <<>>
          THEN /\ dbNetworks' = WithoutMember(dbNetworks, n, m)
               /\ summaryThreadToDo' = _recomputeSummaryInfo(summaryThreadToDo, n)
               /\ wpc' = StartedWorker
               /\ ret' = DbReturned("eraseNetworkMember", t, n, m,
                                    BytesAsJson(dbNetworks[n].members[m]), NoOutput)
          ELSE /\ ret' = DbReturned("eraseNetworkMember", t, n, m, _EMPTY_JSON, NoOutput)
               /\ UNCHANGED <<dbNetworks, summaryThreadToDo, wpc>>
    /\ dbMembers' = IndexErase(dbMembers, dbframe[t].mid, dbframe[t].nwid)
    /\ dbpc' = [dbpc EXCEPT ![t] = "idle"]
    /\ dbframe' = [dbframe EXCEPT ![t] = NoDbFrame]
    /\ emitted' = <<>>
    /\ UNCHANGED <<dbNetworks_m, mutations>>
    /\ DbHostShared

\* faulty variant: the members are left to the removal of the entry in every mode
EraseNetworkCascadesNever == FALSE

\* 230: the members are erased one by one unless the store is the HTTP harness's
EraseNetworkCascades == dbMode # "http"

\* 230-242: the members of the network are collected under the store lock; without
\* the network the call returns the empty object
EraseNetwork(t, n, q) ==
    /\ dbpc[t] = "idle"
    /\ mutations < MaxMutations
    /\ mutations' = mutations + 1
    /\ emitted' = <<>>
    /\ IF EraseNetworkCascades
       THEN /\ dbNetworks_m = None
            /\ q \in Orders(MembersOf(dbNetworks[n]))
            /\ IF dbNetworks[n].present
               THEN /\ dbframe' = [dbframe EXCEPT ![t] =
                                     [NoDbFrame EXCEPT !.op = "eraseNetwork", !.nwid = n,
                                                       !.memberIds = q]]
                    /\ dbpc' = [dbpc EXCEPT ![t] = "erasen_members"]
                    /\ ret' = NoRet
               ELSE /\ ret' = DbReturned("eraseNetwork", t, n, 0, _EMPTY_JSON, NoOutput)
                    /\ UNCHANGED <<dbframe, dbpc>>
       ELSE /\ q = <<>>
            /\ dbframe' = [dbframe EXCEPT ![t] =
                              [NoDbFrame EXCEPT !.op = "eraseNetwork", !.nwid = n]]
            /\ dbpc' = [dbpc EXCEPT ![t] = "erasen_members"]
            /\ ret' = NoRet
    /\ UNCHANGED <<dbNetworks, dbNetworks_m, summaryThreadToDo, wpc>>
    /\ DbHostStep

\* 240-241: eraseNetworkMember(n, m, false) for the next collected member: its file
\* is deleted, it leaves the entry, no summary is scheduled
EraseNetworkNextMember(t) ==
    /\ dbpc[t] = "erasen_members"
    /\ dbframe[t].memberIds # <<>>
    /\ dbNetworks_m = None
    /\ LET n == dbframe[t].nwid
           m == Head(dbframe[t].memberIds)
       IN /\ emitted' = PersistentDelete(n, "member")
          /\ dbNetworks' = IF dbNetworks[n].present THEN WithoutMember(dbNetworks, n, m)
                           ELSE dbNetworks
          /\ dbMembers' = IndexErase(dbMembers, m, n)
    /\ dbframe' = [dbframe EXCEPT ![t].memberIds = Tail(@)]
    /\ ret' = NoRet
    /\ UNCHANGED <<dbNetworks_m, summaryThreadToDo, wpc, dbpc, mutations>>
    /\ DbHostShared

\* 244-258: the network is deleted outside the store
EraseNetworkRm(t) ==
    /\ dbpc[t] = "erasen_members"
    /\ dbframe[t].memberIds = <<>>
    /\ emitted' = PersistentDelete(dbframe[t].nwid, "network")
    /\ dbpc' = [dbpc EXCEPT ![t] = "erasen_erase"]
    /\ ret' = NoRet
    /\ UNCHANGED <<dbNetworks, dbNetworks_m, summaryThreadToDo, wpc, dbframe, mutations>>
    /\ DbHostStep

\* 260-268: under the store lock the entry is removed and its config returned
EraseNetworkErase(t) ==
    /\ dbpc[t] = "erasen_erase"
    /\ dbNetworks_m = None
    /\ LET n == dbframe[t].nwid
       IN IF dbNetworks[n].present
          THEN /\ dbNetworks' = [dbNetworks EXCEPT ![n] = NoNW]
               /\ ret' = DbReturned("eraseNetwork", t, n, 0, from_msgpack(dbNetworks[n].config),
                                    NoOutput)
          ELSE /\ dbNetworks' = dbNetworks
               /\ ret' = DbReturned("eraseNetwork", t, n, 0, _EMPTY_JSON, NoOutput)
    /\ dbpc' = [dbpc EXCEPT ![t] = "idle"]
    /\ dbframe' = [dbframe EXCEPT ![t] = NoDbFrame]
    /\ emitted' = <<>>
    /\ UNCHANGED <<dbNetworks_m, summaryThreadToDo, wpc, mutations>>
    /\ DbHostStep

----------------------------------------------------------------------------
(* JSONDB::threadMain, JSONDB.cpp 306-451: the worker *)

\* what the steps of the worker leave unchanged
WorkerShared ==
    UNCHANGED <<nodeVars, idVars, pureVars, dbMode, summaryThreadRun, dbpc, dbframe>>
\* and the steps that do not touch the index of the members
WorkerStep == WorkerShared /\ UNCHANGED dbMembers

\* faulty variant: any line of the input opens the gate
GateOpensOnAnyLine(msg) == TRUE

\* 339-345: the gate is opened after the line has parsed
GateOpens(msg) == msg.objtype # "malformed"

\* 326-359: in IPC mode the worker reads the input.  The first message that parses
\* opens the gate (342-345); an entity is then added; a line that does not parse is
\* dropped and the worker selects again (353-358)
WorkerRead(msg) ==
    /\ wpc = "loop"
    /\ summaryThreadRun
    /\ dbMode = "ipc"
    /\ emitted' = <<>>
    /\ ret' = NoRet
    /\ dataReady' = (dataReady \/ GateOpens(msg))
    /\ dbNetworks_m' = IF ~dataReady /\ GateOpens(msg) THEN None ELSE dbNetworks_m
    /\ loaded' = (loaded \/ msg.objtype # "malformed")
    /\ IF msg.objtype = "malformed"
       THEN UNCHANGED <<wpc, rawInputBuf, mutations>>
       ELSE IF msg.objtype = "scalar"
       THEN /\ wpc' = "take"
            /\ UNCHANGED <<rawInputBuf, mutations>>
       ELSE /\ mutations < MaxMutations
            /\ mutations' = mutations + 1
            /\ rawInputBuf' = msg
            /\ wpc' = "add"
    /\ UNCHANGED <<dbNetworks, summaryThreadToDo, todo, recomputed>>
    /\ WorkerStep

\* faulty variant: an entity of the input stream schedules the summary of its network
AddToDoScheduled(q, n) == _recomputeSummaryInfo(q, n)

\* 453-480: _add puts the entity into the shadow; it schedules nothing
AddToDo(q, n) == q

\* 347-352, 453-480: the entity is added under the store lock
WorkerAdd ==
    /\ wpc = "add"
    /\ dbNetworks_m = None
    /\ dbNetworks' = IF rawInputBuf.objtype = "network"
                     THEN PutNetwork(dbNetworks, rawInputBuf.nwid, rawInputBuf.payload)
                     ELSE PutMember(dbNetworks, rawInputBuf.nwid, rawInputBuf.mid,
                                    rawInputBuf.payload)
    /\ dbMembers' = IF rawInputBuf.objtype = "network" THEN dbMembers
                    ELSE IndexInsert(dbMembers, rawInputBuf.mid, rawInputBuf.nwid)
    /\ summaryThreadToDo' = AddToDo(summaryThreadToDo, rawInputBuf.nwid)
    /\ rawInputBuf' = NoInput
    /\ wpc' = "take"
    /\ emitted' = <<>>
    /\ ret' = NoRet
    /\ UNCHANGED <<dbNetworks_m, dataReady, todo, loaded, recomputed, mutations>>
    /\ WorkerShared

\* 322-331, 365-370: after its sleep, its select() that timed out or its read, the
\* worker takes the queue, or goes round when the queue is empty; 372: with the
\* data ready it goes on to compute
WorkerTake ==
    /\ \/ wpc = "take"
       \/ wpc = "loop" /\ summaryThreadRun
    /\ IF summaryThreadToDo = <<>>
       THEN /\ wpc' = "loop"
            /\ UNCHANGED <<summaryThreadToDo, todo>>
       ELSE /\ todo' = summaryThreadToDo
            /\ summaryThreadToDo' = <<>>
            /\ wpc' = IF dataReady THEN "compute" ELSE "gate"
    /\ recomputed' = <<>>
    /\ emitted' = <<>>
    /\ ret' = NoRet
    /\ UNCHANGED <<dbNetworks, dbNetworks_m, dataReady, rawInputBuf, loaded, mutations>>
    /\ WorkerStep

\* 372-375: with its first queue the worker opens the gate
WorkerGate ==
    /\ wpc = "gate"
    /\ dataReady' = TRUE
    /\ dbNetworks_m' = None
    /\ wpc' = "compute"
    /\ emitted' = <<>>
    /\ ret' = NoRet
    /\ UNCHANGED <<dbNetworks, summaryThreadToDo, todo, rawInputBuf, loaded, recomputed,
                   mutations>>
    /\ WorkerStep

\* 384-432: the summary of an entry, computed from its members
Summary(nw) ==
    [totalMemberCount |-> Cardinality(MembersOf(nw)),
     authorizedMemberCount |->
        Cardinality({m \in MembersOf(nw) : from_msgpack(nw.members[m]) = "auth"})]

\* 380-439: the entries of the networks of q, recomputed one after the other
RECURSIVE Recompute(_, _)
Recompute(db, q) ==
    IF q = <<>> THEN db
    ELSE LET n == Head(q)
         IN Recompute(IF db[n].present
                      THEN [db EXCEPT ![n].summaryInfo = Summary(db[n])]
                      ELSE db,
                      Tail(q))

\* 377-442: under the store lock the worker recomputes the networks of its todo
\* that are still stored, then clears it
WorkerCompute ==
    /\ wpc = "compute"
    /\ dbNetworks_m = None
    /\ dbNetworks' = Recompute(dbNetworks, todo)
    /\ recomputed' = SelectSeq(todo, LAMBDA n : dbNetworks[n].present)
    /\ todo' = <<>>
    /\ wpc' = "loop"
    /\ emitted' = <<>>
    /\ ret' = NoRet
    /\ UNCHANGED <<dbNetworks_m, dataReady, summaryThreadToDo, rawInputBuf, loaded, mutations>>
    /\ WorkerStep

----------------------------------------------------------------------------
(* The host *)

\* membership and data path calls
Membership(t) ==
    \/ \E nwid \in NwIds : Join(t, nwid)
    \/ \E nwid \in NwIds : LeaveLookup(t, nwid)
    \/ LeaveCallback(t)
    \/ LeaveErase(t)

DataPath(t, T) ==
    \/ \E n \in T, nwid \in NwIds, exc \in Exc : ProcessVirtualNetworkFrame(t, n, nwid, exc)
    \/ \E nwid \in NwIds, exc \in Exc : MulticastSubscribe(t, nwid, exc)
    \/ \E nwid \in NwIds, exc \in Exc : MulticastUnsubscribe(t, nwid, exc)
    \/ \E n \in T, pkt \in Packets, exc \in Exc : ProcessWirePacket(t, n, pkt, exc)

Paths(t, A) ==
    \/ \E a \in A : AddLocalInterfaceAddress(t, a)
    \/ ClearLocalInterfaceAddresses(t)

\* a topology whose peers are upstreams with the given receive times, active on
\* both families
UpstreamPeer(lastReceive) ==
    [present |-> TRUE, lastReceive |-> lastReceive, active |-> TRUE, alive |-> Families]

TopologyOf(upstreams) ==
    LET n == Cardinality(upstreams)
    IN [peers |-> [a \in PeerAddresses |->
                      IF a <= n THEN UpstreamPeer(SeqOf(upstreams)[a]) ELSE NoPeer],
        upstreamsToContact |-> [a \in PeerAddresses |->
                      IF a <= n THEN [present |-> TRUE, endpoints |-> Families]
                      ELSE NoUpstream],
        bestPath |-> FALSE]

\* the periodic tick; E: what its callees may raise
Background(t, T, E) ==
    \/ \E n \in T : BackgroundEnter(t, n)
    \/ BackgroundLock(t)
    \/ \E exc \in E : BackgroundCollect(t, exc)
    \/ BackgroundUnlock(t)
    \/ \E upstreams \in UpstreamSets(T), amRoot \in BOOLEAN, exc \in E :
          BackgroundCallOut(t, TopologyOf(upstreams), amRoot, exc)
    \/ \E excHouse \in E, timerTasks \in 0 .. MaxTimerDelay, excTimer \in E :
          BackgroundFinish(t, excHouse, timerTasks, excTimer)

\* what a ping check can find at an address: nothing, an upstream to contact
\* without a peer record, an upstream with its peer record, another peer
UpstreamPeers ==
    {[present |-> TRUE, lastReceive |-> r, active |-> FALSE, alive |-> al] :
        r \in {0}, al \in SUBSET Families}
OtherPeers ==
    {[present |-> TRUE, lastReceive |-> MaxNow, active |-> ac, alive |-> {}] :
        ac \in BOOLEAN}
StableEndpoints == {[present |-> TRUE, endpoints |-> e] : e \in SUBSET Families}
NothingThere == [peer |-> NoPeer, upstream |-> NoUpstream]
TopologyEntries ==
    {NothingThere, [peer |-> NoPeer, upstream |-> [present |-> TRUE, endpoints |-> Families]]}
    \cup {[peer |-> p, upstream |-> u] : p \in UpstreamPeers, u \in StableEndpoints}
    \cup {[peer |-> p, upstream |-> NoUpstream] : p \in OtherPeers}

\* the topologies with something at two addresses at most
Topologies ==
    {[peers |-> [a \in PeerAddresses |-> f[a].peer],
      upstreamsToContact |-> [a \in PeerAddresses |-> f[a].upstream],
      bestPath |-> b] :
        f \in {g \in [PeerAddresses -> TopologyEntries] :
                  Cardinality({a \in PeerAddresses : g[a] # NothingThere}) <= 2},
        b \in BOOLEAN}

\* a host that ticks, with the peers and upstreams that the topology may hold
NextPing ==
    \E t \in SeqThreads :
        \/ \E n \in MTTimes : BackgroundEnter(t, n)
        \/ BackgroundLock(t)
        \/ BackgroundCollect(t, "none")
        \/ BackgroundUnlock(t)
        \/ \E topology \in Topologies, amRoot \in BOOLEAN, exc \in {"none", "other"} :
              BackgroundCallOut(t, topology, amRoot, exc)
        \/ \E timerTasks \in {MaxTimerDelay} : BackgroundFinish(t, "none", timerTasks, "none")

SpecPing == Init /\ [][NextPing]_vars

\* a host with an embedded controller that configures the networks it has joined
NextConfig ==
    \E t \in SeqThreads :
        \/ \E nwid \in NwIds : Join(t, nwid)
        \/ \E nwid \in NwIds : NcSendConfigLocal(t, nwid)
        \/ Background(t, Times, {"none", "other"})

SpecConfig == Init /\ [][NextConfig]_vars

\* a host that makes every call from one thread
Next ==
    \E t \in SeqThreads :
        \/ Membership(t)
        \/ DataPath(t, Times)
        \/ Paths(t, {"a", "bad"})
        \/ Background(t, Times, Exc)

Spec == Init /\ [][Next]_vars

\* a host whose threads join, leave and tick concurrently
NextMT ==
    \E t \in Threads :
        \/ Membership(t)
        \/ Background(t, MTTimes, {"none"})

SpecMT == Init /\ [][NextMT]_vars

\* a host whose threads manage the direct paths while they join and leave
NextPaths ==
    \E t \in Threads :
        \/ Paths(t, Addresses)
        \/ Membership(t)

SpecPaths == Init /\ [][NextPaths]_vars

\* a host that has no node yet; its store holds what an earlier run, or anything
\* else, left there: a secret under id {0,0}, public texts under the addresses
InitIdentity ==
    /\ now = 0
    /\ lastPingCheck = 0
    /\ lastHousekeepingRun = 0
    /\ online = FALSE
    /\ directPaths = <<>>
    /\ networks = [n \in NwIds |-> Absent]
    /\ backgroundTasksLock = None
    /\ networks_m = None
    /\ pc = [t \in Threads |-> "idle"]
    /\ frame = [t \in Threads |-> NoFrame]
    /\ emitted = <<>>
    /\ ret = NoRet
    /\ identity = 0
    /\ \E sec \in InitialSecrets, pub1 \in InitialPublics, pub2 \in InitialPublics :
          store = [EmptyStore EXCEPT !["IDENTITY_SECRET"][0] = sec,
                                     !["IDENTITY_PUBLIC"][1] = pub1,
                                     !["IDENTITY_PUBLIC"][2] = pub2]
    /\ lastRun = NoRun
    /\ prevRun = NoRun
    /\ DbIdle
    /\ PureIdle
    /\ prngState = <<0, 0>>

\* what the construction of the subcomponents can raise
NewExc == Exc \cup {"runtime_error"}

\* the life of a node: the host constructs it, asks its address, deletes it
NextIdentity ==
    \E t \in SeqThreads :
        \/ \E version \in {0, 1}, gen \in Identities, exc \in NewExc :
              Construct(t, MaxNow, version, gen, exc)
        \/ Delete(t)
        \/ Address(t)

SpecIdentity == InitIdentity /\ [][NextIdentity]_vars

\* a host that has no node and starts a controller store in one of its modes
InitJSONDB ==
    /\ now = 0
    /\ lastPingCheck = 0
    /\ lastHousekeepingRun = 0
    /\ online = FALSE
    /\ directPaths = <<>>
    /\ networks = [n \in NwIds |-> Absent]
    /\ backgroundTasksLock = None
    /\ networks_m = None
    /\ pc = [t \in Threads |-> "idle"]
    /\ frame = [t \in Threads |-> NoFrame]
    /\ emitted = <<>>
    /\ ret = NoRet
    /\ identity = 0
    /\ store = EmptyStore
    /\ lastRun = NoRun
    /\ prevRun = NoRun
    /\ dbMode \in DbModes
    /\ dbNetworks = [n \in DbNwIds |-> NoNW]
    /\ dbMembers = [m \in DbMembers |-> {}]
    /\ dbNetworks_m = None
    /\ dataReady = FALSE
    /\ summaryThreadRun = TRUE
    /\ summaryThreadToDo = <<>>
    /\ todo = <<>>
    /\ rawInputBuf = NoInput
    /\ wpc = "none"
    /\ dbpc = [t \in Threads |-> "new"]
    /\ dbframe = [t \in Threads |-> NoDbFrame]
    /\ loaded = FALSE
    /\ recomputed = <<>>
    /\ mutations = 0
    /\ PureIdle
    /\ prngState = <<0, 0>>

\* the network the controller reads, the members it writes
ReadNwIds == {1}
WrittenMembers == {1}

\* the calls of the controller on its store
DbReaders(t) ==
    \/ \E n \in ReadNwIds : HasNetwork(t, n)
    \/ \E n \in ReadNwIds : GetNetwork(t, n)
    \/ \E n \in ReadNwIds : GetNetworkSummaryInfo(t, n)
    \/ \E n \in ReadNwIds, m \in DbMembers : GetNetworkAndMember(t, n, m)
    \/ \E n \in ReadNwIds, m \in WrittenMembers : GetNetworkMember(t, n, m)

DbWriters(t) ==
    \/ \E n \in DbNwIds, ok \in BOOLEAN : SaveNetwork(t, n, "c2", ok)
    \/ \E n \in DbNwIds, m \in WrittenMembers, ok \in BOOLEAN :
          SaveNetworkMember(t, n, m, "auth", ok)
    \/ SaveShadow(t)
    \/ SaveRecompute(t)
    \/ \E n \in ReadNwIds, m \in WrittenMembers : EraseNetworkMember(t, n, m)
    \/ EraseMemberShadow(t)
    \/ \E n \in ReadNwIds, q \in Orders(DbMembers) \cup UNION {Orders({m}) : m \in DbMembers}
                              \cup {<<>>} : EraseNetwork(t, n, q)
    \/ EraseNetworkNextMember(t)
    \/ EraseNetworkRm(t)
    \/ EraseNetworkErase(t)

DbStartup(t) ==
    \/ DbConstruct(t)
    \/ DbLoadFails(t)
    \/ \E ds \in Datasets, q \in Orders(DbNwIds) \cup UNION {Orders({n}) : n \in DbNwIds}
                              \cup {<<>>}, relock \in Relock : DbLoad(t, ds, q, relock)

Worker ==
    \/ \E msg \in IpcInput : WorkerRead(msg)
    \/ WorkerAdd
    \/ WorkerTake
    \/ WorkerGate
    \/ WorkerCompute

\* a controller thread and the worker of the store
NextJSONDB ==
    \/ \E t \in SeqThreads : DbStartup(t) \/ DbReaders(t) \/ DbWriters(t)
    \/ Worker

SpecJSONDB == InitJSONDB /\ [][NextJSONDB]_vars

----------------------------------------------------------------------------
(* JSONDB::~JSONDB, JSONDB.cpp 105-115, and the end of threadMain, 320, 445-446 *)

\* 107-112: the run flag is cleared under the queue's lock; 113-114: the worker, if
\* one was started, is joined
DbDestroy(t) ==
    /\ \A u \in Threads : dbpc[u] = "idle"
    /\ summaryThreadRun' = FALSE
    /\ dbpc' = IF wpc = "none" THEN [u \in Threads |-> "destroyed"]
               ELSE [dbpc EXCEPT ![t] = "join"]
    /\ ret' = IF wpc = "none" THEN DbReturned("~JSONDB", t, 0, 0, "void", NoOutput) ELSE NoRet
    /\ emitted' = <<>>
    /\ UNCHANGED <<dbMode, dbNetworks, dbMembers, dbNetworks_m, dataReady, summaryThreadToDo,
                   todo, rawInputBuf, wpc, dbframe, loaded, recomputed, mutations>>
    /\ UNCHANGED <<nodeVars, idVars, pureVars>>

\* 114: Thread::join returns when the worker has ended
DbJoin(t) ==
    /\ dbpc[t] = "join"
    /\ wpc = "exited"
    /\ dbpc' = [u \in Threads |-> "destroyed"]
    /\ ret' = DbReturned("~JSONDB", t, 0, 0, "void", NoOutput)
    /\ emitted' = <<Call("Thread::join", 0, "worker")>>
    /\ UNCHANGED <<dbMode, dbNetworks, dbMembers, dbNetworks_m, dataReady, summaryThreadRun,
                   summaryThreadToDo, todo, rawInputBuf, wpc, dbframe, loaded, recomputed,
                   mutations>>
    /\ UNCHANGED <<nodeVars, idVars, pureVars>>

\* faulty variant: the worker ends without looking at the gate
ExitReleasesGateNever == FALSE

\* 445: the worker releases the gate when it ends with the data not ready
ExitReleasesGate == ~dataReady

\* 320, 445-446: at the head of its loop the worker finds the run flag cleared and
\* ends
WorkerExit ==
    /\ wpc = "loop"
    /\ ~summaryThreadRun
    /\ wpc' = "exited"
    /\ dbNetworks_m' = IF ExitReleasesGate THEN None ELSE dbNetworks_m
    /\ emitted' = <<>>
    /\ ret' = NoRet
    /\ UNCHANGED <<dbNetworks, dataReady, summaryThreadToDo, todo, rawInputBuf, loaded,
                   recomputed, mutations>>
    /\ WorkerStep

\* the store with its teardown
NextTeardown ==
    \/ NextJSONDB
    \/ \E t \in SeqThreads : DbDestroy(t) \/ DbJoin(t)
    \/ WorkerExit

\* the threads run: the worker goes on and ends, the destructor's join returns
SpecTeardown ==
    /\ InitJSONDB
    /\ [][NextTeardown]_vars
    /\ WF_vars(WorkerAdd \/ WorkerTake \/ WorkerGate \/ WorkerCompute \/ WorkerExit)
    /\ \A t \in SeqThreads : WF_vars(DbJoin(t))

\* a thread inside a call of the store goes on with the call
HostContinues(t) ==
    \/ \E ds \in Datasets, q \in Orders(DbNwIds) \cup UNION {Orders({n}) : n \in DbNwIds}
                              \cup {<<>>}, relock \in Relock : DbLoad(t, ds, q, relock)
    \/ SaveShadow(t)
    \/ SaveRecompute(t)
    \/ EraseMemberShadow(t)
    \/ EraseNetworkNextMember(t)
    \/ EraseNetworkRm(t)
    \/ EraseNetworkErase(t)

\* the worker goes on from where it is
WorkerContinues ==
    \/ WorkerAdd
    \/ WorkerTake
    \/ WorkerGate
    \/ WorkerCompute

\* the store with threads that run: the worker's loop (320-443) goes round for as
\* long as _summaryThreadRun holds, its select() times out when the input is
\* quiet (WorkerTake), and no call of the store is left half way
SpecJSONDBLive ==
    /\ InitJSONDB
    /\ [][NextJSONDB]_vars
    /\ WF_vars(WorkerContinues)
    /\ \A t \in SeqThreads : WF_vars(HostContinues(t))

----------------------------------------------------------------------------
(* CertificateOfMembership::deserialize, CertificateOfMembership.hpp 299-337 *)

\* the qualifier ids of the buffers
QualifierIds == 0 .. MaxQualifierId
\* the qualifier counts of the buffers: up to one more than fit
QualifierCounts == 0 .. ZT_NETWORK_COM_MAX_QUALIFIERS + 1

\* a host with no node and no controller, before a function is applied
NoHost ==
    /\ now = 0
    /\ lastPingCheck = 0
    /\ lastHousekeepingRun = 0
    /\ online = FALSE
    /\ directPaths = <<>>
    /\ networks = [n \in NwIds |-> Absent]
    /\ backgroundTasksLock = None
    /\ networks_m = None
    /\ pc = [t \in Threads |-> "idle"]
    /\ frame = [t \in Threads |-> NoFrame]
    /\ emitted = <<>>
    /\ ret = NoRet
    /\ identity = 0
    /\ store = EmptyStore
    /\ lastRun = NoRun
    /\ prevRun = NoRun
    /\ DbIdle

\* what an application of a pure function leaves unchanged
PureStep == UNCHANGED <<nodeVars, emitted, ret, idVars, dbVars, prngState>>

\* 302-310: the certificate is emptied; a buffer whose first byte is not 1 is
\* refused; the count of qualifiers is read
DeserializeBegin(tag, numq) ==
    /\ callOut.fn = "none" \/ (callOut.fn = "deserialize" /\ callOut.status # "decoding")
    /\ callIn' = [fn |-> "deserialize", tag |-> tag, numq |-> numq, qid |-> 0]
    /\ callOut' = [fn |-> "deserialize",
                   status |-> IF tag # 1 THEN "INVALID_TYPE" ELSE "decoding",
                   qualifiers |-> <<>>, lastId |-> 0, i |-> 0]
    /\ PureStep

\* 312-326: the next qualifier of the buffer, whose id is qid: an id below the
\* last one is refused, then a qualifier that does not fit; else it is stored
DeserializeQualifier(qid) ==
    /\ callOut.fn = "deserialize"
    /\ callOut.status = "decoding"
    /\ callOut.i < callIn.numq
    /\ callIn' = [callIn EXCEPT !.qid = qid]
    /\ callOut' =
          IF qid < callOut.lastId
          THEN [callOut EXCEPT !.status = "BAD_ENCODING"]
          ELSE IF Len(callOut.qualifiers) < ZT_NETWORK_COM_MAX_QUALIFIERS
          THEN [callOut EXCEPT !.lastId = qid, !.qualifiers = Append(@, qid), !.i = @ + 1]
          ELSE [callOut EXCEPT !.lastId = qid, !.status = "OVERFLOW"]
    /\ PureStep

\* 328-336: after the last qualifier the signer and the signature are read
DeserializeEnd ==
    /\ callOut.fn = "deserialize"
    /\ callOut.status = "decoding"
    /\ callOut.i = callIn.numq
    /\ callIn' = callIn
    /\ callOut' = [callOut EXCEPT !.status = "ok"]
    /\ PureStep

\* the decoding of the buffers of up to nine qualifiers
NextCOM ==
    \/ \E tag \in {0, 1}, numq \in QualifierCounts : DeserializeBegin(tag, numq)
    \/ \E qid \in QualifierIds : DeserializeQualifier(qid)
    \/ DeserializeEnd

\* no node, no store, no call in progress
InitCOM == NoHost /\ PureIdle /\ prngState = <<0, 0>>

SpecCOM == InitCOM /\ [][NextCOM]_vars

----------------------------------------------------------------------------
(* CertificateOfMembership, CertificateOfMembership.hpp 133-146, 242-255 *)

\* the uint64_t values of the qualifiers: every value of the word
Words == 0 .. Modulus - 1

\* faulty variant: the timestamp's maxDelta is not stored
CertificateOfMembershipNoDelta(timestamp, timestampMaxDelta, nwid, issuedTo) ==
    <<[id |-> 0, value |-> timestamp, maxDelta |-> 0],
      [id |-> 1, value |-> nwid, maxDelta |-> 0],
      [id |-> 2, value |-> issuedTo, maxDelta |-> Modulus - 1]>>

\* 133-146: the certificate made of the three required qualifiers: the timestamp
\* (id 0), the network (id 1, maxDelta 0), the member (id 2, maxDelta all ones)
CertificateOfMembership(timestamp, timestampMaxDelta, nwid, issuedTo) ==
    <<[id |-> 0, value |-> timestamp, maxDelta |-> timestampMaxDelta],
      [id |-> 1, value |-> nwid, maxDelta |-> 0],
      [id |-> 2, value |-> issuedTo, maxDelta |-> Modulus - 1]>>

\* agreesWith as the header describes it (245-250): every qualifier of this
\* certificate is in the other and their values are within this one's maxDelta
agreesWith(this, other) ==
    \A i \in 1 .. Len(this) :
        \E j \in 1 .. Len(other) :
            /\ other[j].id = this[i].id
            /\ Max(this[i].value, other[j].value) - Min(this[i].value, other[j].value)
                  <= this[i].maxDelta

\* the certificates the controller issues
IssuedComs ==
    {CertificateOfMembership(ts, d, nwid, to) :
        ts \in Words, d \in {0, 2, Modulus - 1}, nwid \in {1, 2}, to \in {1}}

\* a certificate with one more qualifier, without its last one, with other maxDeltas
WithQualifier(c) == Append(c, [id |-> 3, value |-> 1, maxDelta |-> 0])
WithoutLast(c) == SubSeq(c, 1, Len(c) - 1)
WithDeltas(c, d) == [k \in 1 .. Len(c) |-> [c[k] EXCEPT !.maxDelta = d]]

\* the certificates of the peers
PeerComs ==
    IssuedComs \cup {WithQualifier(c) : c \in IssuedComs}
               \cup {WithoutLast(c) : c \in IssuedComs}

\* a.agreesWith(b)
AgreesWith(a, b) ==
    /\ PureIdle
    /\ callIn' = [fn |-> "agreesWith", a |-> a, b |-> b]
    /\ callOut' = [fn |-> "agreesWith", result |-> agreesWith(a, b)]
    /\ PureStep

\* the caller has used the result
AgreesWithDone ==
    /\ callOut.fn = "agreesWith"
    /\ callIn' = NoCall
    /\ callOut' = NoCall
    /\ PureStep

NextAgree ==
    \/ \E a \in IssuedComs, b \in PeerComs : AgreesWith(a, b)
    \/ AgreesWithDone

SpecAgree == InitCOM /\ [][NextAgree]_vars

\* what a callee raises when it raises
Raised == Exc \ {"none"}

\* the entry points by what they return
ResultCodeOps == {"new", "processWirePacket", "processVirtualNetworkFrame",
                  "processBackgroundTasks", "join", "leave", "multicastSubscribe",
                  "multicastUnsubscribe", "orbit", "deorbit"}
PointerOps == {"peers", "networkConfig", "networks"}
IntOps == {"addLocalInterfaceAddress", "sendUserMessage"}

\* the calls of the sequential host whose callee raises, and the entry points the
\* other hosts do not call
Failing(t) ==
    \/ \E nwid \in NwIds, exc \in Raised : JoinRaises(t, nwid, exc)
    \/ \E nwid \in NwIds, exc \in Raised : LeaveRaises(t, nwid, exc)
    \/ \E exc \in Exc : Orbit(t, exc)
    \/ \E exc \in Exc : Deorbit(t, exc)
    \/ \E op \in PointerOps, nwid \in NwIds, exc \in Exc : Query(t, op, nwid, exc)
    \/ \E a \in Addresses, exc \in Raised : AddLocalInterfaceAddressRaises(t, a, exc)
    \/ \E dest \in Identities, exc \in Exc : SendUserMessage(t, dest, exc)
    \/ \E op \in VoidOps, exc \in Exc : VoidCall(t, op, exc)

\* a host that calls every entry point of the C API from one thread, every callee
\* raising what it can
NextAPI ==
    \E t \in SeqThreads :
        \/ Membership(t)
        \/ DataPath(t, {MaxNow})
        \/ Paths(t, {"a", "bad"})
        \/ Background(t, MTTimes, Exc)
        \/ Failing(t)
        \/ Address(t)
        \/ Delete(t)
        \/ \E version \in {0, 1}, exc \in NewExc : Construct(t, MaxNow, version, 1, exc)

SpecAPI == Init /\ [][NextAPI]_vars

----------------------------------------------------------------------------
(* Properties *)

HasCall(e, c) == \E i \in 1 .. Len(e) : e[i].call = c
HasCallOn(e, c, n, a) == \E i \in 1 .. Len(e) : e[i] = Call(c, n, a)
CountCalls(e, c, a) == Cardinality({i \in 1 .. Len(e) : e[i].call = c /\ e[i].arg = a})

\* the calls that are callbacks of the host
HostCallbacks == {"event", "virtualNetworkConfig", "virtualNetworkFrame", "stateObjectDelete"}
NoHostCallback(e) == \A i \in 1 .. Len(e) : e[i].call \notin HostCallbacks

TickPcs == {"bg_lock", "bg_collect", "bg_unlock", "bg_callout", "bg_finish"}

\* C1: every join(n) returns OK and leaves n joined and every other id as it was;
\* a join(n) of an id that is already joined (the second of two joins) constructs
\* no Network and leaves the networks map, the existing Network included, as it was.
C1_JoinIdempotent ==
    [][ret'.op = "join" =>
          /\ ret'.code = "OK"
          /\ networks'[ret'.nwid].present
          /\ \A m \in NwIds \ {ret'.nwid} : networks'[m] = networks[m]
          /\ networks[ret'.nwid].present =>
                /\ networks' = networks
                /\ ~HasCall(emitted', "Network::Network")
      ]_vars

\* a join that found the id joined has returned
C1_Witness ==
    /\ ret.op = "join"
    /\ emitted = <<>>
    /\ networks[ret.nwid].present

\* C2: every leave(n) returns OK; a leave(n) of an id that is not joined changes
\* no field of the node and calls nothing, so a leave(n) right after a leave(n)
\* leaves the node as the first one left it.
C2_LeaveIdempotent ==
    [][ret'.op = "leave" =>
          /\ ret'.code = "OK"
          /\ ~networks[ret'.nwid].present =>
                /\ nodeFields' = nodeFields
                /\ emitted' = <<>>
                /\ pc' = pc
          /\ (ret.op = "leave" /\ ret.nwid = ret'.nwid) =>
                /\ nodeFields' = nodeFields
                /\ ~HasCall(emitted', "virtualNetworkConfig")
      ]_vars

\* a leave of an id that is not joined has returned, another id being joined
C2_Witness ==
    /\ ret.op = "leave"
    /\ ret.code = "OK"
    /\ emitted = <<>>
    /\ ~networks[ret.nwid].present
    /\ Joined # {}

\* C3: with one calling thread, a leave(n) of a joined n does not return from its
\* lookup; it reaches its erase only through the step that calls the host's
\* virtualNetworkConfig with DESTROY for n; and when it returns, networkConfig(n)
\* is null and networks() does not list n.
C3_LeaveDestroys ==
    [][\A t \in Threads :
          /\ (pc'[t] = "leave_erase" /\ pc[t] # "leave_erase") =>
                HasCallOn(emitted', "virtualNetworkConfig", frame'[t].nwid, "DESTROY")
          /\ (ret'.op = "leave" /\ ret'.t = t) =>
                /\ networks[ret'.nwid].present =>
                      (pc[t] = "leave_erase" /\ frame[t].nwid = ret'.nwid)
                /\ \A n \in NwIds : ret'.nwid = n =>
                      (networkConfig(n)' = "null" /\ n \notin networksList')
      ]_vars

\* a leave of a joined network has returned
C3_Witness ==
    /\ ret.op = "leave"
    /\ HasCallOn(emitted, "stateObjectDelete", ret.nwid, "NETWORK_CONFIG")
    /\ networkConfig(ret.nwid) = "null"

\* C4: processVirtualNetworkFrame, multicastSubscribe and multicastUnsubscribe on
\* an id that is not in the networks map return NETWORK_NOT_FOUND and call nothing;
\* on a joined id they call the router (the network) and return OK unless that
\* callee raises.
C4_NetworkNotFound ==
    [][ret'.op \in {"processVirtualNetworkFrame", "multicastSubscribe", "multicastUnsubscribe"} =>
          /\ ~networks[ret'.nwid].present =>
                /\ ret'.code = "ERROR_NETWORK_NOT_FOUND"
                /\ emitted' = <<>>
          /\ networks[ret'.nwid].present =>
                /\ Len(emitted') = 1
                /\ emitted'[1].nwid = ret'.nwid
                /\ emitted'[1].call =
                      (IF ret'.op = "processVirtualNetworkFrame" THEN "onLocalEthernet"
                       ELSE IF ret'.op = "multicastSubscribe" THEN "Network::multicastSubscribe"
                       ELSE "Network::multicastUnsubscribe")
                /\ ret'.exc = "none" => ret'.code = "OK"
      ]_vars

\* one of the three calls has returned NETWORK_NOT_FOUND while another id is joined
C4_Witness ==
    /\ ret.op \in {"processVirtualNetworkFrame", "multicastSubscribe", "multicastUnsubscribe"}
    /\ ret.code = "ERROR_NETWORK_NOT_FOUND"
    /\ Joined # {}

\* C5: ZT_Node_processWirePacket returns OK when the router raises anything but
\* bad_alloc, FATAL_ERROR_OUT_OF_MEMORY when it raises bad_alloc, and no other code.
C5_WirePacketCodes ==
    ret.op = "processWirePacket" =>
        /\ ret.code \in {"OK", "FATAL_ERROR_OUT_OF_MEMORY"}
        /\ ret.exc = "bad_alloc" <=> ret.code = "FATAL_ERROR_OUT_OF_MEMORY"
        /\ ret.exc = "other" => ret.code = "OK"

\* the router raised a parse error and the call returned OK
C5_Witness ==
    /\ ret.op = "processWirePacket"
    /\ ret.exc = "other"
    /\ ret.code = "OK"

\* C6 as claimed: a malformed packet calls no host callback and leaves every field
\* of the node, now included, as it was.
C6_MalformedChangesNothing ==
    [][(ret'.op = "processWirePacket" /\ emitted'[1].arg = "malformed") =>
          /\ NoHostCallback(emitted')
          /\ nodeFields' = nodeFields
      ]_vars

\* C6 as amended: a malformed packet calls no host callback and leaves online,
\* lastPingCheck, lastHousekeepingRun, directPaths and the networks map as they
\* were; now becomes the now argument of the call.
C6_MalformedChangesOnlyNow ==
    [][(ret'.op = "processWirePacket" /\ emitted'[1].arg = "malformed") =>
          /\ NoHostCallback(emitted')
          /\ <<online, lastPingCheck, lastHousekeepingRun, directPaths, networks>>' =
                <<online, lastPingCheck, lastHousekeepingRun, directPaths, networks>>
          /\ now' = ret'.now
      ]_vars

\* a malformed packet was dropped by a node that is online, has a network and a path
C6_Witness ==
    /\ ret.op = "processWirePacket"
    /\ emitted[1].arg = "malformed"
    /\ ret.code = "OK"
    /\ online
    /\ Joined # {}
    /\ directPaths # <<>>
    /\ lastPingCheck # 0

\* C7: a step posts EVENT_ONLINE exactly once when it turns online from false to
\* true and EVENT_OFFLINE exactly once when it turns it from true to false, and
\* posts neither otherwise; so the events count the transitions.
C7_OnlineEvents ==
    [][/\ CountCalls(emitted', "event", "ONLINE") = (IF ~online /\ online' THEN 1 ELSE 0)
       /\ CountCalls(emitted', "event", "OFFLINE") = (IF online /\ ~online' THEN 1 ELSE 0)
      ]_vars

\* a tick has turned the node online and posted the event
C7_Witness ==
    /\ online
    /\ HasCallOn(emitted, "event", 0, "ONLINE")
    /\ \E t \in Threads : pc[t] = "bg_finish"

\* C8: a processBackgroundTasks that returns OK has written a deadline that is at
\* least now + TIMER_GRANULARITY.
C8_DeadlineFloor ==
    (ret.op = "processBackgroundTasks" /\ ret.code = "OK") =>
        /\ ret.deadline # Unwritten
        /\ ret.deadline >= ret.now + ZT_CORE_TIMER_TASK_GRANULARITY

\* a tick has returned OK with the deadline at the floor
C8_Witness ==
    /\ ret.op = "processBackgroundTasks"
    /\ ret.code = "OK"
    /\ ret.deadline = ret.now + ZT_CORE_TIMER_TASK_GRANULARITY

\* C9 as claimed: the background tasks lock serializes whole ticks: no thread
\* writes now, lastPingCheck, lastHousekeepingRun or online on behalf of its tick
\* while another thread holds the lock for its own.
C9_TicksSerialized ==
    [][\A t \in Threads :
          (/\ pc'[t] # pc[t]
           /\ (pc[t] \in TickPcs \/ pc'[t] \in TickPcs)
           /\ <<now, lastPingCheck, lastHousekeepingRun, online>>' #
                 <<now, lastPingCheck, lastHousekeepingRun, online>>)
          => backgroundTasksLock \in {None, t}
      ]_vars

\* C10: a step of a tick that makes a call other than sendUpdatesToMembers (a
\* configuration request, a ping, an event, the housekeeping, the timer tasks) is
\* made by a thread that does not hold the networks lock.
C10_NoLockAcrossCalls ==
    [][\A t \in Threads :
          (/\ pc'[t] # pc[t]
           /\ pc[t] \in TickPcs
           /\ \E i \in 1 .. Len(emitted') : emitted'[i].call # "sendUpdatesToMembers")
          => (networks_m # t /\ networks_m' # t)
      ]_vars

\* a tick has requested a configuration, after it held the networks lock
C10_Witness ==
    /\ HasCall(emitted, "requestConfiguration")
    /\ networks_m = None
    /\ \E t \in Threads : pc[t] = "bg_finish" /\ frame[t].needConfig # {}

\* the list holds no address twice
NoDuplicatePaths(p) == \A i, j \in 1 .. Len(p) : p[i] = p[j] => i = j

\* C11: whatever the threads call, the direct path list never holds two equal
\* addresses; addLocalInterfaceAddress returns 1 exactly when the address is valid
\* and was not listed, and then appends it; otherwise it returns 0 and leaves the
\* list as it was; clearLocalInterfaceAddresses empties the list.
C11_PathsUnique ==
    [][/\ NoDuplicatePaths(directPaths')
       /\ ret'.op = "addLocalInterfaceAddress" =>
             IF isAddressValidForPath(ret'.addr) /\ ~InPaths(ret'.addr)
             THEN ret'.code = "1" /\ directPaths' = Append(directPaths, ret'.addr)
             ELSE ret'.code = "0" /\ directPaths' = directPaths
       /\ ret'.op = "clearLocalInterfaceAddresses" => directPaths' = <<>>
      ]_vars

\* one thread was refused an address that another thread had added
C11_Witness ==
    /\ ret.op = "addLocalInterfaceAddress"
    /\ ret.code = "0"
    /\ ret.t = "t2"
    /\ Len(directPaths) = 2
    /\ InPaths("a") /\ InPaths("b")

\* C14 as claimed: a node constructed on an empty store, and the next node
\* constructed on the store the first one left, have the same address, and the
\* second does not generate an identity.
C14_AddressSurvivesRestart ==
    (prevRun.ok /\ prevRun.emptyStore /\ lastRun.ok) =>
        /\ lastRun.address = prevRun.address
        /\ ~lastRun.generated

\* C15 as claimed: after a successful construction the store holds the node's
\* secret text and the node's public text.
C15_BothFormsPersisted ==
    (NodeExists /\ lastRun.ok) =>
        /\ \E id \in ObjectIds : store["IDENTITY_SECRET"][id] = lastRun.secret
        /\ \E id \in ObjectIds : store["IDENTITY_PUBLIC"][id] = lastRun.public

ResultCodes == {"OK", "ERROR_NETWORK_NOT_FOUND", "FATAL_ERROR_OUT_OF_MEMORY",
                "FATAL_ERROR_DATA_STORE_FAILED", "FATAL_ERROR_INTERNAL"}

\* C12: no call lets an exception through to the host.  A processBackgroundTasks
\* in which a callee raised anything but bad_alloc returns FATAL_ERROR_INTERNAL;
\* every other entry point in which something was raised returns a result code
\* when it returns one, a null pointer when it returns a pointer, 0 when it returns
\* an int, and returns at all when it returns nothing.
C12_NoExceptionEscapes ==
    /\ ret.code # "escaped"
    /\ (ret.op = "processBackgroundTasks" /\ ret.exc \notin {"none", "bad_alloc"}) =>
          ret.code = "FATAL_ERROR_INTERNAL"
    /\ ret.exc # "none" =>
          /\ ret.op \in ResultCodeOps => ret.code \in ResultCodes
          /\ ret.op \in PointerOps => ret.code = "null"
          /\ ret.op \in IntOps => ret.code = "0"
          /\ ret.op \in VoidOps => ret.code = "void"

\* the housekeeping of a tick raised, and the tick returned FATAL_ERROR_INTERNAL
C12_Witness ==
    /\ ret.op = "processBackgroundTasks"
    /\ ret.exc = "other"
    /\ ret.code = "FATAL_ERROR_INTERNAL"
    /\ HasCall(emitted, "doPeriodicTasks")

\* C13 as claimed: an entry point that returns a result code returns
\* FATAL_ERROR_OUT_OF_MEMORY whenever bad_alloc was raised inside the call.
C13_OutOfMemoryCode ==
    (ret.op \in ResultCodeOps /\ ret.exc = "bad_alloc") =>
        ret.code = "FATAL_ERROR_OUT_OF_MEMORY"

----------------------------------------------------------------------------
(* The controller's store *)

\* C16: getNetworkAndMember returns 0 when the network is not stored, 1 when the
\* network is stored without the member, 3 when both are stored; it assigns its
\* outputs (the network's config, the member's config, the network's summary)
\* only when it returns 3, and it leaves the store as it was.
C16_GetNetworkAndMemberTriState ==
    [][ret'.op = "getNetworkAndMember" =>
          LET n == ret'.nwid
              m == ret'.mid
          IN /\ dbNetworks' = dbNetworks
             /\ ~dbNetworks[n].present => ret'.code = 0 /\ ret'.out = NoOutput
             /\ (dbNetworks[n].present /\ dbNetworks[n].members[m] = <<>>) =>
                    ret'.code = 1 /\ ret'.out = NoOutput
             /\ (dbNetworks[n].present /\ dbNetworks[n].members[m] # <<>>) =>
                    /\ ret'.code = 3
                    /\ ret'.out = <<from_msgpack(dbNetworks[n].config),
                                    from_msgpack(dbNetworks[n].members[m]),
                                    dbNetworks[n].summaryInfo>>]_vars

\* a stored network was asked for a member it does not have
C16_Witness ==
    /\ ret.op = "getNetworkAndMember"
    /\ ret.code = 1
    /\ dbNetworks[ret.nwid].present
    /\ MembersOf(dbNetworks[ret.nwid]) # {}

\* the summary of every stored network is the summary of its members
SummariesFresh ==
    \A n \in DbNwIds :
        dbNetworks[n].present => dbNetworks[n].summaryInfo = Summary(dbNetworks[n])

\* C17 as claimed: in every mode, once the networks are mutated no more (by
\* saveNetwork, saveNetworkMember, eraseNetworkMember or an entity of the IPC
\* input stream), the worker eventually commits, for every stored network, the
\* summary freshly computed from its members, and it stays committed.
C17_SummaryRecovers == <>[]SummariesFresh

\* the same for a store that is not fed by the input stream
SummaryRecoversWithoutInput == (dbMode # "ipc") => <>[]SummariesFresh

\* a queue lists no network twice
NoDuplicateIds(q) == \A i, j \in 1 .. Len(q) : q[i] = q[j] => i = j

\* C18: the queue of deferred recomputes, the queue the worker took and the list of
\* what a pass recomputed never hold a network twice; a save that returns leaves
\* its network queued with a worker started, also when the worker has already
\* taken the queue; and a queued network is recomputed in a later pass of the
\* worker unless it is stored no more.
C18_SavesCoalesce ==
    /\ [](/\ NoDuplicateIds(summaryThreadToDo)
          /\ NoDuplicateIds(todo)
          /\ NoDuplicateIds(recomputed))
    /\ [][\A t \in Threads :
            (dbpc[t] = "save_recompute" /\ dbpc'[t] = "idle") =>
                /\ Queued(summaryThreadToDo', dbframe[t].nwid)
                /\ wpc' # "none"]_vars
    /\ \A n \in DbNwIds :
          Queued(summaryThreadToDo, n) ~> (Queued(recomputed, n) \/ ~dbNetworks[n].present)

\* a second save of a network returned while the network was still queued from
\* the first, and the queue holds the network once
C18_Witness ==
    /\ ret.op \in {"saveNetwork", "saveNetworkMember"}
    /\ mutations = 2
    /\ emitted = <<Call("std::find", ret.nwid, "found")>>
    /\ summaryThreadToDo = <<ret.nwid>>

\* a save returned after the worker had taken the queue with the same network
SaveAfterWorkerTook ==
    /\ ret.op \in {"saveNetwork", "saveNetworkMember"}
    /\ Queued(todo, ret.nwid)
    /\ Queued(summaryThreadToDo, ret.nwid)

StoreReaders ==
    {"hasNetwork", "getNetwork", "getNetworkSummaryInfo", "getNetworkAndMember",
     "getNetworkMember"}

\* the step of thread t is a critical section of the store lock in a save or an
\* erase: the shadow update of a save (208-211, 220-224), of eraseNetworkMember
\* (289-303), and the three of eraseNetwork (232-239, 241, 260-268)
ShadowStep(t) ==
    \/ dbpc[t] = "save_shadow" /\ dbpc'[t] = "save_recompute"
    \/ dbpc[t] = "erasem_shadow" /\ dbpc'[t] = "idle"
    \/ dbpc[t] = "idle" /\ EraseNetworkCascades
          /\ (dbpc'[t] = "erasen_members" \/ ret'.op = "eraseNetwork")
    \/ dbpc[t] = "erasen_members" /\ dbframe'[t].memberIds # dbframe[t].memberIds
    \/ dbpc[t] = "erasen_erase" /\ dbpc'[t] = "idle"

\* C20: no call reads the store, and no save or erase reads or updates it, before
\* the initial load is complete (in filesystem and HTTP mode _load has succeeded,
\* in IPC mode a first message has parsed); until then the store is empty and
\* the store lock is held.
C20_ReadinessGate ==
    /\ [][(ret'.op \in StoreReaders \/ \E t \in Threads : ShadowStep(t)) => loaded]_vars
    /\ [](~loaded => /\ dbNetworks = [n \in DbNwIds |-> NoNW]
                     /\ ~dataReady
                     /\ (\E t \in Threads : dbpc[t] # "new") => dbNetworks_m # None)

\* in IPC mode a call read the store after the first message had parsed and
\* opened the gate
C20_Witness ==
    /\ dbMode = "ipc"
    /\ ret.op \in StoreReaders
    /\ loaded
    /\ mutations = 1

\* in IPC mode a save has written its payload out and waits at the closed gate
SaveWaitsAtGate ==
    /\ dbMode = "ipc"
    /\ ~loaded
    /\ \E t \in Threads : dbpc[t] = "save_shadow"

\* C21: the destructor clears the run flag and returns only when there is no
\* worker or the worker has ended; with the flag cleared the worker starts no other
\* round (at the head of its loop it can only end) and it does end; and once the
\* store is destroyed nobody holds the store lock.
C21_Teardown ==
    /\ []((\A t \in Threads : dbpc[t] = "destroyed") =>
            /\ ~summaryThreadRun
            /\ wpc \in {"none", "exited"}
            /\ dbNetworks_m = None)
    /\ [][(~summaryThreadRun /\ wpc = "loop") => wpc' \in {"loop", "exited"}]_vars
    /\ (~summaryThreadRun) ~> (wpc \in {"none", "exited"})
    /\ (\E t \in Threads : dbpc[t] = "join") ~> (\A t \in Threads : dbpc[t] = "destroyed")

\* a store in IPC mode was destroyed before any message had arrived: the worker
\* ended with the gate closed
C21_Witness ==
    /\ \A t \in Threads : dbpc[t] = "destroyed"
    /\ wpc = "exited"
    /\ ~dataReady
    /\ emitted = <<Call("Thread::join", 0, "worker")>>

\* C22: whatever writeRaw returned, saveNetwork and saveNetworkMember go on to put
\* the payload into the entry of the network (creating the entry if there is none)
\* and then leave the network queued for its summary with a worker started.
C22_SaveSurvivesWriteFailure ==
    [][\A t \in Threads :
          /\ (dbpc[t] = "save_shadow" /\ dbpc'[t] # "save_shadow") =>
                /\ dbpc'[t] = "save_recompute"
                /\ dbNetworks'[dbframe[t].nwid].present
                /\ dbframe[t].op = "saveNetwork" =>
                      dbNetworks'[dbframe[t].nwid].config = to_msgpack(dbframe[t].payload)
                /\ dbframe[t].op = "saveNetworkMember" =>
                      dbNetworks'[dbframe[t].nwid].members[dbframe[t].mid] =
                          to_msgpack(dbframe[t].payload)
          /\ (dbpc[t] = "save_recompute" /\ dbpc'[t] # "save_recompute") =>
                /\ Queued(summaryThreadToDo', dbframe[t].nwid)
                /\ wpc' # "none"]_vars

\* the write of a save failed and the save has put its member into the store, in an
\* entry that it created
C22_Witness ==
    \E t \in Threads :
        /\ dbpc[t] = "save_recompute"
        /\ dbframe[t].op = "saveNetworkMember"
        /\ ~dbframe[t].wrote
        /\ mutations = 1
        /\ dbNetworks[dbframe[t].nwid].config = <<>>
        /\ dbNetworks[dbframe[t].nwid].members[dbframe[t].mid] = to_msgpack(dbframe[t].payload)

----------------------------------------------------------------------------
(* Certificates of membership *)

\* each id is above the one before it
StrictlyAscending(q) == \A k \in 1 .. Len(q) - 1 : q[k] < q[k + 1]

\* no id is below the one before it
NonDecreasing(q) == \A k \in 1 .. Len(q) - 1 : q[k] <= q[k + 1]

\* C23 as claimed: a decoding succeeds only with the type tag 1, qualifier ids
\* that are strictly ascending (none lower than or equal to the one before it) and
\* at most 8 qualifiers; a wrong tag fails with INVALID_TYPE, an id that is not
\* above the one before it with BAD_ENCODING, a ninth qualifier with OVERFLOW.
C23_DecodeChecks ==
    callOut.fn = "deserialize" =>
        /\ callOut.status = "ok" =>
              /\ callIn.tag = 1
              /\ StrictlyAscending(callOut.qualifiers)
              /\ Len(callOut.qualifiers) <= ZT_NETWORK_COM_MAX_QUALIFIERS
        /\ callIn.tag # 1 => callOut.status = "INVALID_TYPE"
        /\ (callOut.status \in {"decoding", "OVERFLOW"}) =>
              StrictlyAscending(callOut.qualifiers)
        /\ callOut.status = "BAD_ENCODING" => callIn.qid < callOut.lastId
        /\ callOut.status = "OVERFLOW" =>
              Len(callOut.qualifiers) = ZT_NETWORK_COM_MAX_QUALIFIERS

\* what the decoder does check: the same with ids that may repeat
DecodeChecksNonDecreasing ==
    callOut.fn = "deserialize" =>
        /\ callOut.status = "ok" =>
              /\ callIn.tag = 1
              /\ NonDecreasing(callOut.qualifiers)
              /\ Len(callOut.qualifiers) = callIn.numq
              /\ callIn.numq <= ZT_NETWORK_COM_MAX_QUALIFIERS
        /\ callIn.tag # 1 => callOut.status = "INVALID_TYPE"
        /\ callOut.status = "BAD_ENCODING" => callIn.qid < callOut.lastId
        /\ callOut.status = "OVERFLOW" =>
              /\ Len(callOut.qualifiers) = ZT_NETWORK_COM_MAX_QUALIFIERS
              /\ callOut.i = ZT_NETWORK_COM_MAX_QUALIFIERS
              /\ callIn.numq > ZT_NETWORK_COM_MAX_QUALIFIERS

\* a buffer of nine qualifiers with ascending ids ends in OVERFLOW
DecodedNineAscending ==
    /\ callOut.fn = "deserialize"
    /\ callOut.status = "OVERFLOW"
    /\ StrictlyAscending(Append(callOut.qualifiers, callIn.qid))

\* the qualifier of certificate c with the id, or none
QualifiersWithId(c, id) == {k \in 1 .. Len(c) : c[k].id = id}

\* the difference of two values as a magnitude
Magnitude(x, y) == IF x >= y THEN x - y ELSE y - x

----------------------------------------------------------------------------
(* The periodic tick *)

\* thread t ends the ping check of its tick with this step
PingCheckCompletes(t) == pc[t] = "bg_callout" /\ pc'[t] = "bg_finish"

\* the receive times of the peers that are in the upstream contact set
UpstreamReceiveTimes(topology) ==
    {topology.peers[a].lastReceive :
        a \in {b \in PeerAddresses : /\ topology.peers[b].present
                                      /\ topology.upstreamsToContact[b].present}}

\* the largest of the times, 0 when there is none
Latest(S) == IF S = {} THEN 0 ELSE CHOOSE x \in S : \A y \in S : y <= x

\* n - l as uint64_t
Unsigned64Difference(n, l) == IF n >= l THEN n - l ELSE Modulus - (l - n)

\* C25: the step that completes the ping check of a tick leaves online equal to
\* ((now - L) < PEER_ACTIVITY_TIMEOUT) or amRoot, with now the argument of the
\* tick, L the latest lastReceive of the peers of the upstream contact set (0
\* without any) and the difference taken as uint64_t; no other step changes
\* online, so a tick whose ping check does not run returns with online as it was.
C25_OnlineStatus ==
    [][IF \E t \in Threads : PingCheckCompletes(t)
       THEN \A t \in Threads :
               PingCheckCompletes(t) =>
                  LET L == Latest(UpstreamReceiveTimes(frame'[t].topology))
                  IN online' = (\/ Unsigned64Difference(frame'[t].now, L)
                                     < ZT_PEER_ACTIVITY_TIMEOUT
                                \/ frame'[t].amRoot)
       ELSE online' = online
      ]_vars

\* a ping check has completed with an upstream whose last receive is later than
\* now: the difference wraps and the node is offline
C25_Witness ==
    \E t \in Threads :
        /\ pc[t] = "bg_finish"
        /\ UpstreamReceiveTimes(frame[t].topology) # {}
        /\ Latest(UpstreamReceiveTimes(frame[t].topology)) > frame[t].now
        /\ ~frame[t].amRoot
        /\ ~online

\* the calls of the configuration refresh, the pings and the online status
PingCheckCalls == {"sendUpdatesToMembers", "requestConfiguration", "doPingAndKeepalive",
                   "sendHELLO", "requestWhois", "event"}
PingCheckPcs == {"bg_collect", "bg_unlock", "bg_callout"}

\* C26: when a tick has the lock, its ping check (configuration refresh, pings,
\* online status) runs exactly when now - lastPingCheck >= PING_CHECK_INTERVAL,
\* with now the argument of the tick, and then lastPingCheck is now and stays so to
\* the return; otherwise the tick goes to the housekeeping test with
\* lastPingCheck and online as they were and makes none of the calls of the ping
\* check.  At the housekeeping test the housekeeping runs exactly when
\* now - lastHousekeepingRun >= HOUSEKEEPING_PERIOD, and then
\* lastHousekeepingRun is now; no other step changes the two stamps.
C26_PingCheckGating ==
    [][\A t \in SeqThreads :
          LET n == frame[t].now
              pingDue == Unsigned64Difference(n, lastPingCheck) >= ZT_PING_CHECK_INVERVAL
              houseDue == Unsigned64Difference(n, lastHousekeepingRun)
                             >= ZT_HOUSEKEEPING_PERIOD
          IN /\ (pc[t] = "bg_lock" /\ pc'[t] # "bg_lock") =>
                   IF pingDue
                   THEN pc'[t] = "bg_collect" /\ lastPingCheck' = n
                   ELSE /\ pc'[t] = "bg_finish"
                        /\ lastPingCheck' = lastPingCheck
                        /\ online' = online
             /\ pc[t] # "bg_lock" => lastPingCheck' = lastPingCheck
             /\ (\E c \in PingCheckCalls : HasCall(emitted', c)) =>
                   (pc[t] \in PingCheckPcs \/ pc[t] \notin TickPcs)
             /\ pc[t] \in PingCheckPcs => pc'[t] \in PingCheckPcs \cup {"bg_finish", "idle"}
             /\ (pc[t] = "bg_finish" /\ pc'[t] # "bg_finish") =>
                   /\ HasCall(emitted', "doPeriodicTasks") = houseDue
                   /\ HasCallOn(emitted', "clean", 0, "sa") = houseDue
                   /\ HasCallOn(emitted', "clean", 0, "mc") = houseDue
                   /\ lastHousekeepingRun' = IF houseDue THEN n ELSE lastHousekeepingRun
             /\ pc[t] # "bg_finish" =>
                   /\ lastHousekeepingRun' = lastHousekeepingRun
                   /\ ~HasCall(emitted', "doPeriodicTasks")
      ]_vars

\* a tick has returned whose ping check did not run and whose housekeeping did
C26_Witness ==
    /\ ret.op = "processBackgroundTasks"
    /\ ret.code = "OK"
    /\ HasCall(emitted, "doPeriodicTasks")
    /\ lastHousekeepingRun = ret.now
    /\ lastPingCheck # ret.now

\* how many of the calls are calls of c on network n
CallsOn(e, c, n) == Cardinality({i \in 1 .. Len(e) : e[i].call = c /\ e[i].nwid = n})

\* the joined network has no configuration or a stale one
StaleOrUnconfigured(n, k) ==
    \/ ~networks[k].hasConfig
    \/ Unsigned64Difference(n, networks[k].lastConfigUpdate) >= ZT_NETWORK_AUTOCONF_DELAY

\* C27: in a ping check that no exception cuts short, the step under the networks
\* lock calls sendUpdatesToMembers once on every joined network and on no other,
\* and the step after it calls requestConfiguration once for each joined network
\* without a configuration or with a stale one (now - lastConfigUpdate >=
\* AUTOCONF_DELAY, now the argument of the tick) and for no other network; no
\* other step of the tick makes these calls.
C27_ConfigRequests ==
    [][\A t \in SeqThreads :
          /\ (pc[t] = "bg_collect" /\ pc'[t] = "bg_unlock") =>
                \A k \in NwIds :
                    CallsOn(emitted', "sendUpdatesToMembers", k) = (IF k \in Joined THEN 1 ELSE 0)
          /\ (pc[t] = "bg_callout" /\ pc'[t] = "bg_finish") =>
                \A k \in NwIds :
                    CallsOn(emitted', "requestConfiguration", k) =
                        (IF k \in Joined /\ StaleOrUnconfigured(frame[t].now, k) THEN 1 ELSE 0)
          /\ (pc[t] \in TickPcs \ {"bg_collect"}) => ~HasCall(emitted', "sendUpdatesToMembers")
          /\ (pc[t] \in TickPcs \ {"bg_callout"}) => ~HasCall(emitted', "requestConfiguration")
      ]_vars

\* a ping check has requested the configuration of network 1, which has a stale
\* one, and not that of network 2, which has a fresh one
C27_Witness ==
    \E t \in SeqThreads :
        /\ pc[t] = "bg_finish"
        /\ Joined = {1, 2}
        /\ networks[1].hasConfig
        /\ networks[2].hasConfig
        /\ CallsOn(emitted, "requestConfiguration", 1) = 1
        /\ CallsOn(emitted, "requestConfiguration", 2) = 0

\* the peers with a record that the ping check of thread t found in the upstream
\* contact set, the families on which doPingAndKeepalive reported activity, the
\* families of the stable endpoints
UpstreamPeersOf(t) ==
    {a \in PeerAddresses : /\ frame[t].topology.peers[a].present
                           /\ frame[t].topology.upstreamsToContact[a].present}
AliveOn(t, a) == frame[t].topology.peers[a].alive
EndpointsOf(t, a) == frame[t].topology.upstreamsToContact[a].endpoints

\* how many of the calls are the call c on peer a with argument x
CallsTo(e, c, a, x) == Cardinality({i \in 1 .. Len(e) : e[i] = Call(c, a, x)})

\* C28 as claimed: after the ping check of a tick, every peer of the upstream
\* contact set has been sent a HELLO for each family on which doPingAndKeepalive
\* reported no recent activity (a HELLO over the path of the best current upstream
\* is counted for both families).
C28_HelloPerFamily ==
    \A t \in SeqThreads :
        pc[t] = "bg_finish" =>
            \A a \in UpstreamPeersOf(t), family \in Families :
                family \notin AliveOn(t, a) =>
                    \/ HasCallOn(emitted, "sendHELLO", a, family)
                    \/ HasCallOn(emitted, "sendHELLO", a, "bestPath")

\* C28 amended: after the ping check of a tick that no exception cut short, every
\* peer of the upstream contact set has been pinged once on each family and has
\* been sent exactly one HELLO to a stable endpoint of each family on which
\* doPingAndKeepalive reported no recent activity and for which its stable
\* endpoints hold an address, and none for the other families; if it was
\* contacted on neither family and the best current upstream has a path, it has
\* been sent one HELLO over that path, and none otherwise.
C28_HelloPerFamilyWithEndpoint ==
    \A t \in SeqThreads :
        pc[t] = "bg_finish" =>
            \A a \in UpstreamPeersOf(t) :
                /\ \A family \in Families :
                      /\ CallsTo(emitted, "doPingAndKeepalive", a, family) = 1
                      /\ CallsTo(emitted, "sendHELLO", a, family) =
                            (IF family \notin AliveOn(t, a) /\ family \in EndpointsOf(t, a)
                             THEN 1 ELSE 0)
                /\ CallsTo(emitted, "sendHELLO", a, "bestPath") =
                      (IF /\ AliveOn(t, a) = {}
                          /\ EndpointsOf(t, a) = {}
                          /\ frame[t].topology.bestPath
                       THEN 1 ELSE 0)

\* an upstream without activity on either family and with stable endpoints of both
\* has been sent a HELLO on each
C28_Witness ==
    \E t \in SeqThreads :
        /\ pc[t] = "bg_finish"
        /\ \E a \in UpstreamPeersOf(t) :
              /\ AliveOn(t, a) = {}
              /\ EndpointsOf(t, a) = Families
              /\ HasCallOn(emitted, "sendHELLO", a, "AF_INET")
              /\ HasCallOn(emitted, "sendHELLO", a, "AF_INET6")

\* the calls made on a peer
PeerCalls == {"doPingAndKeepalive", "sendHELLO"}
CallsOnPeer(e, a) == {i \in 1 .. Len(e) : e[i].call \in PeerCalls /\ e[i].nwid = a}

\* C29: after the ping check of a tick, requestWhois has been called once for each
\* address of the upstream contact set that has no peer record and for no other
\* address; a peer that is neither in the upstream contact set nor active has
\* received no ping, keepalive or HELLO, an active one that is not an upstream
\* has received one ping of no particular family.
C29_WhoisAndInactivePeers ==
    \A t \in SeqThreads :
        pc[t] = "bg_finish" =>
            LET topology == frame[t].topology
            IN \A a \in PeerAddresses :
                  /\ CallsOn(emitted, "requestWhois", a) =
                        (IF /\ topology.upstreamsToContact[a].present
                            /\ ~topology.peers[a].present
                         THEN 1 ELSE 0)
                  /\ (/\ ~topology.upstreamsToContact[a].present
                      /\ ~topology.peers[a].active) => CallsOnPeer(emitted, a) = {}
                  /\ (/\ ~topology.upstreamsToContact[a].present
                      /\ topology.peers[a].present
                      /\ topology.peers[a].active) =>
                        /\ CallsTo(emitted, "doPingAndKeepalive", a, "any") = 1
                        /\ Cardinality(CallsOnPeer(emitted, a)) = 1

\* a ping check has looked up an upstream without a peer record and has left alone
\* a peer that is neither an upstream nor active
C29_Witness ==
    \E t \in SeqThreads :
        /\ pc[t] = "bg_finish"
        /\ \E a, b \in PeerAddresses :
              /\ frame[t].topology.upstreamsToContact[a].present
              /\ ~frame[t].topology.peers[a].present
              /\ HasCallOn(emitted, "requestWhois", a, "upstream")
              /\ frame[t].topology.peers[b].present
              /\ ~frame[t].topology.upstreamsToContact[b].present
              /\ ~frame[t].topology.peers[b].active
              /\ CallsOnPeer(emitted, b) = {}

----------------------------------------------------------------------------
(* Configuration chunks *)

\* the bytes of the first k packets
RECURSIVE BytesSent(_, _)
BytesSent(sent, k) == IF k = 0 THEN 0 ELSE BytesSent(sent, k - 1) + sent[k].chunkLen

\* the packets sent so far are consecutive chunks of the configuration
ChunksPartition ==
    callOut.fn = "ncSendConfig" =>
        LET sent == callOut.sent
        IN /\ \A i \in 1 .. Len(sent) :
                 /\ sent[i].chunkIndex = BytesSent(sent, i - 1)
                 /\ sent[i].chunkLen >= 1
                 /\ sent[i].chunkLen <= ZT_UDP_DEFAULT_PAYLOAD_MTU - (ZT_PACKET_IDX_PAYLOAD + TrailerBytes)
                 /\ sent[i].totalSize = callIn.totalSize
           /\ \A i, j \in 1 .. Len(sent) : i < j => sent[i].chunkIndex < sent[j].chunkIndex
           /\ BytesSent(sent, Len(sent)) <= callIn.totalSize
           /\ callIn.totalSize = 0 => sent = <<>>
           /\ (callOut.returned /\ callIn.serialized) =>
                 BytesSent(sent, Len(sent)) = callIn.totalSize

\* C30: the packets that ncSendConfig sends to another node partition the
\* serialized configuration: the chunkIndex of each is the sum of the lengths of
\* the chunks before it (0, len1, len1 + len2, ...), increasing; every chunkLen is
\* at least 1 and at most PAYLOAD_MTU - (payload offset + room for the trailer);
\* every packet carries the totalSize of the configuration; when the call returns
\* the lengths add up to totalSize; with totalSize 0 no packet is sent; and a call
\* that has begun returns.
C30_Chunking ==
    /\ []ChunksPartition
    /\ (callOut.fn = "ncSendConfig" /\ ~callOut.returned)
          ~> (callOut.fn = "ncSendConfig" /\ callOut.returned)

\* a configuration has been sent in three chunks, the last one shorter
C30_Witness ==
    /\ callOut.fn = "ncSendConfig"
    /\ callOut.returned
    /\ Len(callOut.sent) = 3
    /\ callOut.sent[3].chunkLen < callOut.sent[1].chunkLen
    /\ callOut.sent[3].chunkIndex = 2 * callOut.sent[1].chunkLen

\* the update ids of the packets of the transfer in progress
UpdateIds == {callOut.sent[i].configUpdateId : i \in 1 .. Len(callOut.sent)}

\* the chunks of a transfer carry one update id, which is the number drawn when the
\* call began, or 1 if that number was 0
OneUpdateId ==
    callOut.fn = "ncSendConfig" =>
        LET random == prng(callIn.prngState).value
        IN /\ Cardinality(UpdateIds) <= 1
           /\ 0 \notin UpdateIds
           /\ UpdateIds \subseteq {IF random = 0 THEN 1 ELSE random}

\* C31 as claimed: every chunk of a transfer carries the same update id, which is
\* not zero (a random number 0 is replaced by 1), and every call of ncSendConfig
\* has advanced the generator once.
C31_UpdateId ==
    /\ OneUpdateId
    /\ callOut.fn = "ncSendConfig" => prngState = prng(callIn.prngState).state

\* C31 amended: every chunk of a transfer carries the same update id, which is not
\* zero (a random number 0 is replaced by 1); a call of ncSendConfig for another
\* node whose configuration was serialized has advanced the generator once, before
\* its first chunk; a call whose configuration could not be serialized, and a
\* call for the node's own address, leave the generator as it was.
C31_UpdateIdOfTransfer ==
    /\ []OneUpdateId
    /\ [](callOut.fn = "ncSendConfig" =>
             prngState = IF callIn.serialized THEN prng(callIn.prngState).state
                         ELSE callIn.prngState)
    /\ [][callOut' = callOut => prngState' = prngState]_vars

\* a transfer of two chunks or more has returned whose random number was 0: its
\* chunks carry the update id 1
C31_Witness ==
    /\ callOut.fn = "ncSendConfig"
    /\ callOut.returned
    /\ Len(callOut.sent) >= 2
    /\ prng(callIn.prngState).value = 0
    /\ callIn.prngState # <<0, 0>>
    /\ UpdateIds = {1}

----------------------------------------------------------------------------
(* The hooks of the embedded controller *)

\* C32: ncSendError for another node with a request packet id that is not zero
\* hands the router exactly one packet, an ERROR with NETWORK_ACCESS_DENIED for
\* ACCESS_DENIED and with OBJ_NOT_FOUND for OBJECT_NOT_FOUND and
\* INTERNAL_SERVER_ERROR, and changes no network; with the request packet id zero
\* it hands over nothing; for the node itself it hands over nothing and marks the
\* network, if joined, not found or access denied by the same mapping.
C32_ErrorDelivery ==
    [][\A t \in SeqThreads, nwid \in NwIds, requestPacketId \in {0, 1},
          errorCode \in ErrorCodes \ {"NC_ERROR_NONE"} :
          LET denied == errorCode = "NC_ERROR_ACCESS_DENIED"
          IN /\ NcSendError(t, nwid, requestPacketId, "other", errorCode) =>
                   /\ networks' = networks
                   /\ IF requestPacketId = 0
                      THEN emitted' = <<>>
                      ELSE /\ Len(emitted') = 1
                           /\ emitted'[1].call = "send"
                           /\ emitted'[1].nwid = nwid
                           /\ emitted'[1].arg = IF denied THEN "ERROR_NETWORK_ACCESS_DENIED_"
                                                ELSE "ERROR_OBJ_NOT_FOUND"
             /\ NcSendError(t, nwid, requestPacketId, "self", errorCode) =>
                   /\ emitted' = <<>>
                   /\ \A k \in NwIds \ {nwid} : networks'[k] = networks[k]
                   /\ IF networks[nwid].present
                      THEN networks'[nwid] =
                              [networks[nwid] EXCEPT !.netconfFailure =
                                  IF denied THEN "ACCESS_DENIED" ELSE "NOT_FOUND"]
                      ELSE networks'[nwid] = networks[nwid]
      ]_vars

\* the node has answered a request of another node with ACCESS_DENIED
C32_Witness ==
    /\ ret.op = "ncSendError"
    /\ emitted = <<Call("send", ret.nwid, "ERROR_NETWORK_ACCESS_DENIED_")>>

\* the step leaves every network but n as it was
OnlyNetwork(n) == \A k \in NwIds \ {n} : networks'[k] = networks[k]

\* the step changes no field of the node but the networks
OtherFieldsKept ==
    /\ <<now, lastPingCheck, lastHousekeepingRun, online, directPaths>>' =
          <<now, lastPingCheck, lastHousekeepingRun, online, directPaths>>
    /\ prngState' = prngState

\* C33: ncSendConfig, ncSendRevocation and ncSendError for the node's own address
\* hand no packet to the router and touch no network but the one of the call; a
\* joined network has the configuration installed, the revocation added, the
\* error marked; when the network is not joined nothing changes.
C33_LocalShortCircuit ==
    [][\A t \in SeqThreads, nwid \in NwIds :
          LET joined == networks[nwid].present
              local == \/ NcSendConfigLocal(t, nwid)
                       \/ NcSendRevocation(t, "self", nwid)
                       \/ \E requestPacketId \in {0, 1}, errorCode \in ErrorCodes :
                             NcSendError(t, nwid, requestPacketId, "self", errorCode)
          IN /\ local => /\ emitted' = <<>>
                         /\ OnlyNetwork(nwid)
                         /\ OtherFieldsKept
                         /\ ~joined => networks' = networks
             /\ (NcSendConfigLocal(t, nwid) /\ joined) =>
                   /\ networks'[nwid].hasConfig
                   /\ networks'[nwid].lastConfigUpdate = now
                   /\ networks'[nwid].present
             /\ (NcSendRevocation(t, "self", nwid) /\ joined) =>
                   networks'[nwid] = [networks[nwid] EXCEPT !.revoked = TRUE]
             /\ \A requestPacketId \in {0, 1}, errorCode \in ErrorCodes :
                   (NcSendError(t, nwid, requestPacketId, "self", errorCode) /\ joined) =>
                      networks'[nwid] = [networks[nwid] EXCEPT !.netconfFailure =
                          CASE errorCode = "NC_ERROR_ACCESS_DENIED" -> "ACCESS_DENIED"
                            [] errorCode = "NC_ERROR_NONE" -> @
                            [] OTHER -> "NOT_FOUND"]
      ]_vars

\* the controller has revoked a credential on a network of the node itself: the
\* network has taken it and no packet went out
C33_Witness ==
    /\ ret.op = "ncSendRevocation"
    /\ emitted = <<>>
    /\ networks[ret.nwid].present
    /\ networks[ret.nwid].revoked
    /\ networks[ret.nwid].hasConfig

----------------------------------------------------------------------------
(* JSONDB::threadMain, JSONDB.cpp 377-440: the summary of one network, all of *)
(* its fields.  Summary above is its projection on the payloads of the store's *)
(* state machine; here the members are json objects *)

\* a member of _NW::members: its bytes decode or not; a decoded member is an object.
\* A timestamp absent from the object reads as 0, a flag as false (jsonInt, jsonBool)
NoMember == [present |-> FALSE, decodes |-> FALSE, authorized |-> FALSE, recentLog |-> <<>>,
             lastDeauthorizedTime |-> 0, activeBridge |-> FALSE, ipAssignments |-> <<>>]
UndecodableMember == [NoMember EXCEPT !.present = TRUE]
MemberObject(authorized, recentLog, lastDeauthorizedTime, activeBridge, ipAssignments) ==
    [present |-> TRUE, decodes |-> TRUE, authorized |-> authorized, recentLog |-> recentLog,
     lastDeauthorizedTime |-> lastDeauthorizedTime, activeBridge |-> activeBridge,
     ipAssignments |-> ipAssignments]

\* NetworkSummaryInfo()
NoSummaryInfo == [activeBridges |-> <<>>, allocatedIps |-> <<>>, authorizedMemberCount |-> 0,
                  activeMemberCount |-> 0, totalMemberCount |-> 0, mostRecentDeauthTime |-> 0]

\* 385-390: the fields are cleared
Cleared(ns) == [ns EXCEPT !.activeBridges = <<>>, !.allocatedIps = <<>>,
                          !.authorizedMemberCount = 0, !.activeMemberCount = 0,
                          !.totalMemberCount = 0, !.mostRecentDeauthTime = 0]

\* faulty variant: the last entry of the log is looked at
ActiveByLastEntry(member, n) ==
    /\ Len(member.recentLog) > 0
    /\ U64Sub(n, member.recentLog[Len(member.recentLog)]) < ZT_NETWORK_AUTOCONF_DELAY * 2

\* 400-407: the first entry of the member's log is younger than two periods
Active(member, n) ==
    /\ Len(member.recentLog) > 0
    /\ U64Sub(n, member.recentLog[1]) < ZT_NETWORK_AUTOCONF_DELAY * 2

\* 415-424: the assignments that parse as an IPv4 or IPv6 address (0: any other string)
ValidIps(ipAssignments) == SelectSeq(ipAssignments, LAMBDA ip : ip # 0)

\* 393-431: one member of the loop; a member that does not decode is skipped
AddMember(ns, id, member, n) ==
    IF ~member.decodes THEN ns
    ELSE IF member.authorized
    THEN [ns EXCEPT !.authorizedMemberCount = @ + 1,
                    !.activeMemberCount = IF Active(member, n) THEN @ + 1 ELSE @,
                    !.activeBridges = IF member.activeBridge THEN Append(@, id) ELSE @,
                    !.allocatedIps = @ \o ValidIps(member.ipAssignments),
                    !.totalMemberCount = @ + 1]
    ELSE [ns EXCEPT !.mostRecentDeauthTime = Max(@, member.lastDeauthorizedTime),
                    !.totalMemberCount = @ + 1]

\* 392: the loop over the members, in the order q of the map
RECURSIVE SummaryOver(_, _, _, _)
SummaryOver(ns, members, q, n) ==
    IF q = <<>> THEN ns
    ELSE SummaryOver(AddMember(ns, Head(q), members[Head(q)], n), members, Tail(q), n)

\* std::sort
RECURSIVE Insert(_, _)
Insert(s, x) == IF s = <<>> THEN <<x>>
                ELSE IF x <= Head(s) THEN <<x>> \o s
                ELSE <<Head(s)>> \o Insert(Tail(s), x)
RECURSIVE Sort(_)
Sort(s) == IF s = <<>> THEN <<>> ELSE Insert(Sort(Tail(s)), Head(s))

\* 384-436: the summary that replaces ns
SummaryInfoOf(ns, members, q, n) ==
    LET all == SummaryOver(Cleared(ns), members, q, n)
    IN [all EXCEPT !.activeBridges = Sort(@), !.allocatedIps = Sort(@)]

\* the members of the networks at the time n: logged a moment ago, two periods
\* ago, or with a timestamp ahead of the clock
SummaryMembers(n) ==
    LET recent == U64Sub(n, 1)
        old == U64Sub(n, ZT_NETWORK_AUTOCONF_DELAY * 2)
        ahead == U64Add(n, 2)
    IN {NoMember, UndecodableMember,
        MemberObject(TRUE, <<recent>>, 0, TRUE, <<2, 1>>),
        MemberObject(TRUE, <<old, recent>>, 0, TRUE, <<0, 1>>),
        MemberObject(TRUE, <<>>, 2, FALSE, <<>>),
        MemberObject(TRUE, <<ahead>>, 0, FALSE, <<>>),
        MemberObject(FALSE, <<recent>>, 5, TRUE, <<1>>),
        MemberObject(FALSE, <<>>, 2, FALSE, <<>>),
        MemberObject(FALSE, <<>>, 0, FALSE, <<>>)}

SummaryMemberIds == {1, 2, 3}
SummaryTimes == {0, MaxNow}

\* a summary left by an earlier pass
StaleSummaryInfo == [activeBridges |-> <<3>>, allocatedIps |-> <<2>>, authorizedMemberCount |-> 3,
                     activeMemberCount |-> 3, totalMemberCount |-> 3, mostRecentDeauthTime |-> 7]

\* 380-437: the worker recomputes the summary ns of a network with the given
\* members, which the map lists in the order q
RecomputeSummary(ns, members, q, n) ==
    /\ PureIdle
    /\ callIn' = [fn |-> "summary", ns |-> ns, members |-> members, order |-> q, now |-> n]
    /\ callOut' = [fn |-> "summary", summaryInfo |-> SummaryInfoOf(ns, members, q, n)]
    /\ PureStep

\* the summary has been read
RecomputeSummaryDone ==
    /\ callOut.fn = "summary"
    /\ callIn' = NoCall
    /\ callOut' = NoCall
    /\ PureStep

NextSummary ==
    \/ \E ns \in {NoSummaryInfo, StaleSummaryInfo}, n \in SummaryTimes :
          \E members \in [SummaryMemberIds -> SummaryMembers(n)] :
             \E q \in Orders({m \in SummaryMemberIds : members[m].present}) :
                RecomputeSummary(ns, members, q, n)
    \/ RecomputeSummaryDone

SpecSummary == InitCOM /\ [][NextSummary]_vars

\* how often x is in the sequence s
RECURSIVE Occurrences(_, _)
Occurrences(s, x) == IF s = <<>> THEN 0
                     ELSE (IF Head(s) = x THEN 1 ELSE 0) + Occurrences(Tail(s), x)

Ascending(s) == \A i \in 1 .. Len(s) - 1 : s[i] <= s[i + 1]

RECURSIVE SumOver(_, _)
SumOver(S, f) == IF S = {} THEN 0
                 ELSE LET x == CHOOSE y \in S : TRUE IN f[x] + SumOver(S \ {x}, f)

\* C34: the recomputed summary is a function of the members and the time alone:
\* total counts the members that decode, authorized those with authorized = true,
\* active the authorized ones whose first log entry is less than two periods old,
\* mostRecentDeauthTime is the latest lastDeauthorizedTime of the members that are
\* not authorized (0 without one), the bridges and addresses of the authorized
\* members are listed in ascending order; two authorized members, one of them just
\* logged, and one deauthorized at 5 give {3, 2, 1, 5}.
C34_Summary ==
    callOut.fn = "summary" =>
       LET members == callIn.members
           n == callIn.now
           s == callOut.summaryInfo
           decodable == {m \in SummaryMemberIds : members[m].present /\ members[m].decodes}
           authorized == {m \in decodable : members[m].authorized}
           deauthTimes == {members[m].lastDeauthorizedTime : m \in decodable \ authorized}
       IN /\ s.totalMemberCount = Cardinality(decodable)
          /\ s.authorizedMemberCount = Cardinality(authorized)
          /\ s.activeMemberCount =
                Cardinality({m \in authorized :
                    /\ members[m].recentLog # <<>>
                    /\ Unsigned64Difference(n, members[m].recentLog[1])
                          < 2 * ZT_NETWORK_AUTOCONF_DELAY})
          /\ s.mostRecentDeauthTime =
                (IF deauthTimes = {} THEN 0
                 ELSE CHOOSE d \in deauthTimes : \A e \in deauthTimes : e <= d)
          /\ Ascending(s.activeBridges)
          /\ Ascending(s.allocatedIps)
          /\ \A m \in SummaryMemberIds :
                Occurrences(s.activeBridges, m) =
                   (IF m \in authorized /\ members[m].activeBridge THEN 1 ELSE 0)
          /\ \A ip \in 0 .. 2 :
                Occurrences(s.allocatedIps, ip) =
                   (IF ip = 0 THEN 0
                    ELSE SumOver(authorized,
                                 [m \in authorized |->
                                     Occurrences(members[m].ipAssignments, ip)]))
          /\ (/\ Cardinality(authorized) = 2
              /\ Cardinality(decodable) = 3
              /\ Cardinality({m \in authorized : Active(members[m], n)}) = 1
              /\ deauthTimes = {5})
             => /\ s.totalMemberCount = 3
                /\ s.authorizedMemberCount = 2
                /\ s.activeMemberCount = 1
                /\ s.mostRecentDeauthTime = 5

\* the three members of the example, after a summary of another pass
C34_Witness ==
    /\ callOut.fn = "summary"
    /\ callIn.ns = StaleSummaryInfo
    /\ callIn.order = <<3, 1, 2>>
    /\ callIn.members[1].authorized /\ Active(callIn.members[1], callIn.now)
    /\ callIn.members[2].authorized /\ callIn.members[2].decodes
    /\ callIn.members[2].recentLog = <<>>
    /\ ~callIn.members[3].authorized /\ callIn.members[3].lastDeauthorizedTime = 5
    /\ callOut.summaryInfo.totalMemberCount = 3
    /\ callOut.summaryInfo.authorizedMemberCount = 2
    /\ callOut.summaryInfo.activeMemberCount = 1
    /\ callOut.summaryInfo.mostRecentDeauthTime = 5
    /\ callOut.summaryInfo.allocatedIps = <<1, 2>>

----------------------------------------------------------------------------
(* JSONDB::threadMain, JSONDB.cpp 326-360: the input of the IPC mode byte by *)
(* byte.  WorkerRead above is the same lines with one message per read; here  *)
(* rawInputBuf is the std::string of the code, a sequence of bytes            *)

\* the bytes of the input: the three delimiters of 335; a network object with one
\* config ("n") or another ("N") of network 1, a json value that is no object ("s"),
\* the brackets of an array
Delimiters == {"LF", "CR", "NUL"}
NetworkObjects == {"n", "N"}
InputBytes == Delimiters \cup NetworkObjects \cup {"s", "[", "]"}

\* OSUtils::jsonParse: one value, or an array of values; anything else raises
jsonParse(text) ==
    IF Len(text) = 1 /\ text[1] \in NetworkObjects
    THEN [ok |-> TRUE, is |-> "object", elements |-> text]
    ELSE IF Len(text) = 1 /\ text[1] = "s"
    THEN [ok |-> TRUE, is |-> "scalar", elements |-> <<>>]
    ELSE IF /\ Len(text) >= 2
            /\ text[1] = "["
            /\ text[Len(text)] = "]"
            /\ \A i \in 2 .. Len(text) - 1 : text[i] \in NetworkObjects \cup {"s"}
    THEN [ok |-> TRUE, is |-> "array", elements |-> SubSeq(text, 2, Len(text) - 1)]
    ELSE [ok |-> FALSE, is |-> "none", elements |-> <<>>]

\* 456-466: _add of a value: a network object replaces the config of its network
_add(db, j) == IF j = "n" THEN PutNetwork(db, 1, "c1")
               ELSE IF j = "N" THEN PutNetwork(db, 1, "c2")
               ELSE db

\* 347-352: the elements of an array one after the other, or the object
RECURSIVE AddEach(_, _)
AddEach(db, elements) ==
    IF elements = <<>> THEN db ELSE AddEach(_add(db, Head(elements)), Tail(elements))

\* faulty variant: any message that is not empty opens the gate
ReadByteOpensAlways(st, b) ==
    IF b \notin Delimiters THEN [st EXCEPT !.rawInputBuf = Append(@, b)]
    ELSE IF st.rawInputBuf = <<>> THEN st
    ELSE LET obj == jsonParse(st.rawInputBuf)
         IN IF obj.ok
            THEN [st EXCEPT !.gotMessage = TRUE, !.dataReady = TRUE,
                            !.db = AddEach(@, obj.elements), !.rawInputBuf = <<>>]
            ELSE [st EXCEPT !.dataReady = TRUE, !.rawInputBuf = <<>>]

\* 335-355: one byte of the read: it is kept, or it ends the message, which is
\* parsed, opens the gate and is added; a message that does not parse is dropped
ReadByte(st, b) ==
    IF b \notin Delimiters THEN [st EXCEPT !.rawInputBuf = Append(@, b)]
    ELSE IF st.rawInputBuf = <<>> THEN st
    ELSE LET obj == jsonParse(st.rawInputBuf)
         IN IF obj.ok
            THEN [st EXCEPT !.gotMessage = TRUE, !.dataReady = TRUE,
                            !.db = AddEach(@, obj.elements), !.rawInputBuf = <<>>]
            ELSE [st EXCEPT !.rawInputBuf = <<>>]

\* 334: the loop over the bytes that read() returned
RECURSIVE ReadBytes(_, _)
ReadBytes(st, bytes) ==
    IF bytes = <<>> THEN st ELSE ReadBytes(ReadByte(st, Head(bytes)), Tail(bytes))

\* the most bytes that wait in rawInputBuf for their delimiter, and the longest read
MaxMessage == 3
MaxRead == 2
InputReads == UNION {[1 .. k -> InputBytes] : k \in 0 .. MaxRead}

\* 326-359: select() has returned with input and read() with bytes; without a
\* whole message in them the worker selects again, else it goes on to its queue
WorkerInput(bytes) ==
    /\ wpc = "loop"
    /\ summaryThreadRun
    /\ dbMode = "ipc"
    /\ dataReady => dbNetworks_m = None
    /\ LET st == ReadBytes([rawInputBuf |-> rawInputBuf, db |-> dbNetworks,
                            dataReady |-> dataReady, gotMessage |-> FALSE], bytes)
       IN /\ Len(st.rawInputBuf) <= MaxMessage
          /\ rawInputBuf' = st.rawInputBuf
          /\ dbNetworks' = st.db
          /\ dataReady' = st.dataReady
          /\ dbNetworks_m' = IF ~dataReady /\ st.dataReady THEN None ELSE dbNetworks_m
          /\ loaded' = (loaded \/ st.gotMessage)
          /\ wpc' = IF st.gotMessage THEN "take" ELSE "loop"
    /\ emitted' = <<>>
    /\ ret' = NoRet
    /\ UNCHANGED <<summaryThreadToDo, todo, recomputed, mutations>>
    /\ WorkerStep

\* a store constructed in IPC mode (98-102): the worker runs, the gate is held
InitIPC ==
    /\ now = 0
    /\ lastPingCheck = 0
    /\ lastHousekeepingRun = 0
    /\ online = FALSE
    /\ directPaths = <<>>
    /\ networks = [n \in NwIds |-> Absent]
    /\ backgroundTasksLock = None
    /\ networks_m = None
    /\ pc = [t \in Threads |-> "idle"]
    /\ frame = [t \in Threads |-> NoFrame]
    /\ emitted = <<>>
    /\ ret = NoRet
    /\ identity = 0
    /\ store = EmptyStore
    /\ lastRun = NoRun
    /\ prevRun = NoRun
    /\ dbMode = "ipc"
    /\ dbNetworks = [n \in DbNwIds |-> NoNW]
    /\ dbMembers = [m \in DbMembers |-> {}]
    /\ dbNetworks_m \in SeqThreads
    /\ dataReady = FALSE
    /\ summaryThreadRun = TRUE
    /\ summaryThreadToDo = <<>>
    /\ todo = <<>>
    /\ rawInputBuf = <<>>
    /\ wpc = "loop"
    /\ dbpc = [t \in Threads |-> "idle"]
    /\ dbframe = [t \in Threads |-> NoDbFrame]
    /\ loaded = FALSE
    /\ recomputed = <<>>
    /\ mutations = 0
    /\ PureIdle
    /\ prngState = <<0, 0>>

\* the worker on its input, and a controller thread that reads the store
NextIPC ==
    \/ \E bytes \in InputReads : WorkerInput(bytes)
    \/ WorkerTake
    \/ \E t \in SeqThreads, n \in ReadNwIds : GetNetwork(t, n)

SpecIPC == InitIPC /\ [][NextIPC]_vars

\* the messages of a stream of bytes: the runs of bytes that a delimiter ends, the
\* empty ones left out, in the order of their arrival
MessagesOf(stream) ==
    LET ends == {i \in 1 .. Len(stream) : stream[i] \in Delimiters}
        start(i) == IF \E j \in ends : j < i
                    THEN 1 + CHOOSE j \in ends : j < i /\ \A k \in ends : k < i => k <= j
                    ELSE 1
        whole == {i \in ends : start(i) < i}
    IN [k \in 1 .. Cardinality(whole) |->
           LET i == CHOOSE e \in whole : Cardinality({f \in whole : f <= e}) = k
           IN SubSeq(stream, start(i), i - 1)]

\* the bytes after the last delimiter of the stream
Unfinished(stream) ==
    LET ends == {i \in 1 .. Len(stream) : stream[i] \in Delimiters}
    IN IF ends = {} THEN stream
       ELSE SubSeq(stream, 1 + CHOOSE j \in ends : \A k \in ends : k <= j, Len(stream))

\* the network objects of the messages that parse, in the order of their arrival
RECURSIVE ObjectsOf(_)
ObjectsOf(messages) ==
    IF messages = <<>> THEN <<>>
    ELSE SelectSeq(jsonParse(Head(messages)).elements, LAMBDA j : j \in NetworkObjects)
            \o ObjectsOf(Tail(messages))

\* C35: in IPC mode the gate opens at the first message of the input that parses
\* and at no other step: the bytes of the reads add up to a message until a
\* newline, a CR or a NUL, an empty message or one that does not parse opens no
\* gate and changes nothing in the store, and the objects of the messages that
\* parse (the elements of an array one by one) are applied in the order of
\* arrival, so that the last one of a network is the one the store keeps.
C35_IpcGate ==
    /\ [](~dataReady => /\ dbNetworks_m # None
                        /\ dbNetworks = [n \in DbNwIds |-> NoNW])
    /\ [][/\ dataReady' # dataReady => \E bytes \in InputReads : WorkerInput(bytes)
          /\ \A bytes \in InputReads : WorkerInput(bytes) =>
                LET stream == rawInputBuf \o bytes
                    messages == MessagesOf(stream)
                    parsed == SelectSeq(messages, LAMBDA text : jsonParse(text).ok)
                    objects == ObjectsOf(messages)
                IN /\ rawInputBuf' = Unfinished(stream)
                   /\ dataReady' = (dataReady \/ parsed # <<>>)
                   /\ dbNetworks_m' = (IF parsed # <<>> THEN None ELSE dbNetworks_m)
                   /\ parsed = <<>> => dbNetworks' = dbNetworks
                   /\ dbNetworks' =
                         (IF objects = <<>> THEN dbNetworks
                          ELSE PutNetwork(dbNetworks, 1,
                                          IF objects[Len(objects)] = "n" THEN "c1" ELSE "c2"))
      ]_vars

\* the gate has opened and the store has the second config of network 1; the
\* bytes of a next message wait for their delimiter
C35_Witness ==
    /\ dataReady
    /\ dbNetworks_m = None
    /\ rawInputBuf = <<"[">>
    /\ dbNetworks[1].present
    /\ dbNetworks[1].config = to_msgpack("c2")
    /\ wpc = "take"

----------------------------------------------------------------------------
(* Node::join and Node::leave under concurrent callers, Node.cpp 313-351 *)

\* the step is the lookup of a leave of t that found the network (326-335)
LeaveFound(t) == pc[t] = "idle" /\ pc'[t] = "leave_callback"

\* C36 as claimed: of the leaves of a joined network that run at the same time one
\* alone goes on to the DESTROY callback and to stateObjectDelete: no leave finds
\* and destroys a network that another leave has destroyed already, each leave
\* that found it calls the host once for the port and once for the stored config.
C36_LeaveOnce ==
    [][\A t \in Threads :
          /\ LeaveFound(t) => ~networks[frame'[t].nwid].destroyed
          /\ LeaveCallback(t) =>
                emitted' = <<configureVirtualNetworkPort(frame[t].nwid, "DESTROY")>>
          /\ LeaveErase(t) =>
                emitted' = <<Call("stateObjectDelete", frame[t].nwid, "NETWORK_CONFIG")>>
      ]_vars

\* C37 as claimed: a join that returns OK leaves the network in the map with a
\* Network object that no leave has destroyed, so that with no leave started
\* afterwards the network is there when all calls have returned.
C37_JoinKept ==
    [][\A t \in Threads, nwid \in NwIds :
          Join(t, nwid) => /\ networks'[nwid].present
                           /\ ~networks'[nwid].destroyed
      ]_vars

----------------------------------------------------------------------------
(* JSONDB::_members and JSONDB::hasNetwork, JSONDB.cpp 149-153, 215-304, 453-480 *)

\* C38 as claimed: the index of the members agrees with the member maps in every
\* state of every mode: network n is in the index entry of member m exactly when n
\* has an entry with a record of m; after eraseNetwork(n) no index entry has n.
C38_IndexAgrees ==
    /\ \A m \in DbMembers, n \in DbNwIds :
          n \in dbMembers[m] <=> (dbNetworks[n].present /\ m \in MembersOf(dbNetworks[n]))
    /\ ret.op = "eraseNetwork" => \A m \in DbMembers : ret.nwid \notin dbMembers[m]

\* C39 as claimed: hasNetwork(n) is true only of a network whose config was stored,
\* by saveNetwork or by the load, and not erased since: an entry of the map has a
\* config, whatever was saved or loaded for its members and whatever the worker
\* recomputed.
C39_HasNetworkHasConfig ==
    /\ \A n \in DbNwIds : dbNetworks[n].present => dbNetworks[n].config # <<>>
    /\ ret.op = "hasNetwork" =>
          (ret.code = TRUE => dbNetworks[ret.nwid].config # <<>>)

----------------------------------------------------------------------------
(* The locks of the store, JSONDB.cpp 79-103, 453-529, 289-303, 531-538 *)

\* the thread is inside a save or an erase
InStoreCall(t) == dbpc[t] \in {"save_shadow", "save_recompute", "erasem_shadow",
                               "erasen_members", "erasen_erase"}

\* the worker is inside a pass of its loop
InWorkerPass == wpc \in {"add", "take", "gate", "compute"}

\* C40 as claimed: with threads that run, the store does not wait for a lock for
\* ever: the constructor of the filesystem and HTTP modes, which loads with the
\* gate held, returns; every save and erase of these modes returns; every pass of
\* the worker comes back to the head of its loop.
C40_NoSelfDeadlock ==
    /\ \A t \in SeqThreads : (dbpc[t] = "ctor_load") ~> (dbpc[t] = "idle")
    /\ \A t \in SeqThreads : (dbMode # "ipc" /\ InStoreCall(t)) ~> (dbpc[t] = "idle")
    /\ InWorkerPass ~> (wpc = "loop")

====
